---- MODULE Spec2Model ----
(***************************************************************************)
(* Model of the AuguPlatform client (src/client.py): the length-prefixed   *)
(* JSON transport (send_msg / recv_msg / recv_all) and the ServerConnection *)
(* session with its background receive loop (listen_server).                *)
(*                                                                         *)
(* Two specifications share the module:                                    *)
(*   SpecTransport  byte level: frames written by send_msg travel over a   *)
(*                  stream and are read back by recv_msg, one sock.recv    *)
(*                  call per step, in every chunking;                      *)
(*   Spec           session level: the UI thread (connect, outbound        *)
(*                  commands, teardown) interleaved with the receive loop, *)
(*                  one attribute write per step.                          *)
(* The later sections add specifications of the same state for the         *)
(* replicated model, the chat log, the start and the frames of game_screen,*)
(* its collision passes, its peer loop and its block clicks.               *)
(***************************************************************************)
EXTENDS Integers, Sequences, FiniteSets, TLC

VARIABLES
    \* ---- byte-level transport (SpecTransport) ----
    wire,        \* bytes written by the sending side and not yet received
    wireClosed,  \* the sending side has closed the stream
    tSent,       \* what the sending side did, in order (one entry per frame)
    rpc,         \* receiver position: "hdr", "body" (inside recv_all) or "stop"
    rdata,       \* recv_all's bytearray `data`
    msglen,      \* recv_msg's msglen once the prefix is unpacked
    rres         \* values returned by the successive recv_msg calls

tvars == <<wire, wireClosed, tSent, rpc, rdata, msglen, rres>>

VARIABLES
    \* ---- ServerConnection attributes (Spec) ----
    sock,               \* "none", "open" or "closed" (closed by this side)
    connected,
    player_level,
    server_name,
    motd,
    world,              \* sequence of rows, each a sequence of tile kinds
    players,            \* peer id -> <<x, y>>
    player_colors,      \* peer id -> color
    player_x,
    player_y,
    hotbar,
    chat_messages,
    last_position_send, \* in 1/100 time units
    disconnect_reason,  \* <<>> is None, <<r>> is the string r
    respawn_flag,
    \* ---- the threads and their surroundings ----
    pcUI,               \* position of the UI thread in connect / session / teardown
    connectResult,      \* what connect() returned: "none" (not yet), "True", "False"
    pcListen,           \* position of the listen_server thread
    msg,                \* listen_server's local msg: the frame last read
    pend,               \* statements of the current handler still to run
    exitPath,           \* the statement by which listen_server left its loop
    sent,               \* messages written to the socket, in order
    inbound,            \* frames the server wrote that recv_msg has not read
    peerClosed,         \* the server closed its side of the stream
    nframes,            \* frames the server has written so far
    now,                \* last value time.time() returned, in 1/100 time units
    last                \* the step just taken (operation and what it observed)

modelvars == <<player_level, server_name, motd, world, players, player_colors,
               player_x, player_y, hotbar, chat_messages, disconnect_reason,
               respawn_flag>>

connvars == <<sock, connected, last_position_send>>

VARIABLES
    \* ---- locals of game_screen ----
    wait_time,          \* iterations of the start-up wait done so far
    gs_player_x,        \* game_screen's player_x, <<>> until it is assigned
    gs_player_y,        \* game_screen's player_y, <<>> until it is assigned
    player_vx,          \* in 1/1000 tile per time unit
    player_vy,
    on_ground,
    player_grid_x,      \* <<>> until it is assigned (line 1435)
    player_grid_y,      \* <<>> until it is assigned (line 1436)
    running,
    chat_open,
    frame_count,
    keys,               \* the controls held in this frame
    delta_time,         \* what clock.tick returned, in 1/1000 time units
    pcGame,             \* position of the UI thread in the game loop
    snapped,            \* this frame took the respawn branch (1287-1293)
    selected_slot,      \* the hotbar slot chosen with the keys 1-7 or the wheel
    peer_iter           \* the iterator over conn.players.items() of the drawing pass

simvars == <<player_vx, player_vy, on_ground, player_grid_x, player_grid_y, running,
             chat_open, frame_count, keys, delta_time, pcGame, snapped, selected_slot,
             peer_iter>>

gsvars == <<wait_time, gs_player_x, gs_player_y, simvars>>

svars == <<connvars, modelvars, pcUI, connectResult, pcListen, msg, pend, exitPath,
           sent, inbound, peerClosed, nframes, now, last, gsvars>>

vars == <<tvars, svars>>

\* ------------------------------------------------------------------------
\* Bounds
\* ------------------------------------------------------------------------
MaxSends == 2      \* frames the sending side writes in one behaviour
MaxFrames == 2     \* frames the server writes in one session
MaxSent == 2       \* messages the client writes in one session, login included
MaxTime == 6       \* largest clock reading, in 1/100 time units

\* ------------------------------------------------------------------------
\* Python values that json handles, as uniform records:
\*   t = "null" | "int" | "float" | "str" | "dict"
\*   int: n;  float: n / 10^e;  str: s (code points);  dict: d, a sequence of
\*   [k |-> key string, v |-> value] in insertion order, keys distinct.
\* ------------------------------------------------------------------------
JNull == [t |-> "null", n |-> 0, e |-> 0, s |-> <<>>, d |-> <<>>]
JInt(i) == [t |-> "int", n |-> i, e |-> 0, s |-> <<>>, d |-> <<>>]
JFloat(m, ex) == [t |-> "float", n |-> m, e |-> ex, s |-> <<>>, d |-> <<>>]
JStr(str) == [t |-> "str", n |-> 0, e |-> 0, s |-> str, d |-> <<>>]
JDict(pairs) == [t |-> "dict", n |-> 0, e |-> 0, s |-> <<>>, d |-> pairs]

\* str.encode('utf-8') of the ASCII strings used below
Utf8(s) ==
    CASE s = "type" -> <<116, 121, 112, 101>>
      [] s = "chat" -> <<99, 104, 97, 116>>
      [] s = "message" -> <<109, 101, 115, 115, 97, 103, 101>>
      [] s = "move" -> <<109, 111, 118, 101>>
      [] s = "x" -> <<120>>
      [] s = "y" -> <<121>>
      [] s = "break_block" -> <<98, 114, 101, 97, 107, 95, 98, 108, 111, 99, 107>>
      [] s = "update_color" -> <<117, 112, 100, 97, 116, 101, 95, 99, 111, 108, 111, 114>>
      [] s = "color" -> <<99, 111, 108, 111, 114>>
      [] s = "red" -> <<114, 101, 100>>
      [] s = "hi" -> <<104, 105>>
      [] s = "a\"b\\" -> <<97, 34, 98, 92>>
      [] s = "null" -> <<110, 117, 108, 108>>

Pow10(k) == CASE k = 0 -> 1 [] k = 1 -> 10 [] k = 2 -> 100 [] OTHER -> 1000

RECURSIVE NatDigits(_)
NatDigits(n) ==
    IF n < 10 THEN <<48 + n>> ELSE NatDigits(n \div 10) \o <<48 + (n % 10)>>

\* exactly k decimal digits of m (m < 10^k)
RECURSIVE FracDigits(_, _)
FracDigits(m, k) ==
    IF k = 0 THEN <<>> ELSE FracDigits(m \div 10, k - 1) \o <<48 + (m % 10)>>

Abs(i) == IF i < 0 THEN -i ELSE i

\* int.__repr__
IntRepr(i) == IF i < 0 THEN <<45>> \o NatDigits(-i) ELSE NatDigits(i)

\* float.__repr__ for a decimal with e fraction digits
FloatRepr(m, ex) ==
    (IF m < 0 THEN <<45>> ELSE <<>>)
      \o NatDigits(Abs(m) \div Pow10(ex)) \o <<46>>
      \o FracDigits(Abs(m) % Pow10(ex), ex)

\* json.encoder: string escaping of '"', '\' and newline
RECURSIVE EscapeStr(_)
EscapeStr(s) ==
    IF s = <<>> THEN <<>>
    ELSE LET c == Head(s) IN
         (CASE c = 34 -> <<92, 34>>
            [] c = 92 -> <<92, 92>>
            [] c = 10 -> <<92, 110>>
            [] OTHER -> <<c>>) \o EscapeStr(Tail(s))

DumpScalar(v) ==
    CASE v.t = "null" -> Utf8("null")
      [] v.t = "int" -> IntRepr(v.n)
      [] v.t = "float" -> FloatRepr(v.n, v.e)
      [] OTHER -> <<34>> \o EscapeStr(v.s) \o <<34>>

\* members joined by ", ", key and value by ": " (json.dumps default separators)
RECURSIVE DumpPairs(_)
DumpPairs(d) ==
    IF d = <<>> THEN <<>>
    ELSE <<34>> \o EscapeStr(d[1].k) \o <<34, 58, 32>> \o DumpScalar(d[1].v)
           \o (IF Len(d) > 1 THEN <<44, 32>> ELSE <<>>) \o DumpPairs(Tail(d))

json_dumps(v) ==
    IF v.t = "dict" THEN <<123>> \o DumpPairs(v.d) \o <<125>> ELSE DumpScalar(v)

\* ------------------------------------------------------------------------
\* json.loads, for the value domain above (objects of scalars; no arrays,
\* booleans, exponents or \u escapes, none of which the modelled peers write)
\* ------------------------------------------------------------------------
PFail == [ok |-> FALSE, val |-> JNull, pos |-> 0]
POk(v, p) == [ok |-> TRUE, val |-> v, pos |-> p]

IsDigit(c) == c \in 48..57

RECURSIVE SkipWs(_, _)
SkipWs(b, i) ==
    IF i <= Len(b) /\ b[i] \in {32, 9, 10, 13} THEN SkipWs(b, i + 1) ELSE i

\* i is the index after the opening quote
RECURSIVE ParseStrBody(_, _, _)
ParseStrBody(b, i, acc) ==
    IF i > Len(b) THEN PFail
    ELSE IF b[i] = 34 THEN POk(JStr(acc), i + 1)
    ELSE IF b[i] = 92 THEN
        IF i + 1 > Len(b) THEN PFail
        ELSE CASE b[i + 1] = 34 -> ParseStrBody(b, i + 2, Append(acc, 34))
               [] b[i + 1] = 92 -> ParseStrBody(b, i + 2, Append(acc, 92))
               [] b[i + 1] = 47 -> ParseStrBody(b, i + 2, Append(acc, 47))
               [] b[i + 1] = 110 -> ParseStrBody(b, i + 2, Append(acc, 10))
               [] b[i + 1] = 116 -> ParseStrBody(b, i + 2, Append(acc, 9))
               [] b[i + 1] = 114 -> ParseStrBody(b, i + 2, Append(acc, 13))
               [] OTHER -> PFail
    ELSE IF b[i] < 32 THEN PFail
    ELSE ParseStrBody(b, i + 1, Append(acc, b[i]))

RECURSIVE ScanDigits(_, _, _)
ScanDigits(b, i, acc) ==
    IF i <= Len(b) /\ IsDigit(b[i])
    THEN ScanDigits(b, i + 1, acc * 10 + (b[i] - 48))
    ELSE [n |-> acc, pos |-> i]

\* a float is kept as the shortest decimal with at least one fraction digit
RECURSIVE NormFloat(_, _)
NormFloat(m, ex) ==
    IF ex > 1 /\ m % 10 = 0 THEN NormFloat(m \div 10, ex - 1) ELSE JFloat(m, ex)

ParseNumber(b, i) ==
    LET neg == b[i] = 45
        j == IF neg THEN i + 1 ELSE i
    IN  IF j > Len(b) \/ ~IsDigit(b[j]) THEN PFail
        ELSE LET ip == IF b[j] = 48 THEN [n |-> 0, pos |-> j + 1]
                       ELSE ScanDigits(b, j, 0)
                 sg == IF neg THEN -1 ELSE 1
                 hasFrac == /\ ip.pos + 1 <= Len(b)
                            /\ b[ip.pos] = 46
                            /\ IsDigit(b[ip.pos + 1])
             IN  IF ~hasFrac THEN POk(JInt(sg * ip.n), ip.pos)
                 ELSE LET fp == ScanDigits(b, ip.pos + 1, 0)
                          ex == fp.pos - (ip.pos + 1)
                      IN  POk(NormFloat(sg * (ip.n * Pow10(ex) + fp.n), ex), fp.pos)

ParseValue(b, i) ==
    IF i > Len(b) THEN PFail
    ELSE IF b[i] = 34 THEN ParseStrBody(b, i + 1, <<>>)
    ELSE IF b[i] = 45 \/ IsDigit(b[i]) THEN ParseNumber(b, i)
    ELSE IF i + 3 <= Len(b) /\ SubSeq(b, i, i + 3) = Utf8("null") THEN POk(JNull, i + 4)
    ELSE PFail

\* dict.__setitem__: an existing key keeps its place, a new key goes last
DictSet(d, k, v) ==
    IF \E i \in 1..Len(d) : d[i].k = k
    THEN [i \in 1..Len(d) |-> IF d[i].k = k THEN [k |-> k, v |-> v] ELSE d[i]]
    ELSE Append(d, [k |-> k, v |-> v])

\* i is the index of the quote that opens the next key
RECURSIVE ParseMembers(_, _, _)
ParseMembers(b, i, acc) ==
    IF i > Len(b) \/ b[i] # 34 THEN PFail
    ELSE LET key == ParseStrBody(b, i + 1, <<>>) IN
         IF ~key.ok THEN PFail
         ELSE LET c == SkipWs(b, key.pos) IN
              IF c > Len(b) \/ b[c] # 58 THEN PFail
              ELSE LET v == ParseValue(b, SkipWs(b, c + 1)) IN
                   IF ~v.ok THEN PFail
                   ELSE LET acc2 == DictSet(acc, key.val.s, v.val)
                            e == SkipWs(b, v.pos)
                        IN  IF e > Len(b) THEN PFail
                            ELSE IF b[e] = 125 THEN POk(JDict(acc2), e + 1)
                            ELSE IF b[e] = 44
                                 THEN ParseMembers(b, SkipWs(b, e + 1), acc2)
                            ELSE PFail

\* ok = FALSE stands for json.JSONDecodeError
json_loads(b) ==
    LET i == SkipWs(b, 1)
        r == IF i <= Len(b) /\ b[i] = 123
             THEN LET j == SkipWs(b, i + 1) IN
                  IF j <= Len(b) /\ b[j] = 125 THEN POk(JDict(<<>>), j + 1)
                  ELSE ParseMembers(b, j, <<>>)
             ELSE ParseValue(b, i)
    IN  IF r.ok /\ SkipWs(b, r.pos) = Len(b) + 1 THEN r ELSE PFail

\* Python == on the values above (1 == 1.0; dict order is irrelevant)
ScalarEq(v, w) ==
    \/ v = w
    \/ v.t = "int" /\ w.t = "float" /\ v.n * Pow10(w.e) = w.n
    \/ v.t = "float" /\ w.t = "int" /\ w.n * Pow10(v.e) = v.n

PyEq(v, w) ==
    IF v.t = "dict" /\ w.t = "dict"
    THEN /\ Len(v.d) = Len(w.d)
         /\ \A i \in 1..Len(v.d) : \E j \in 1..Len(w.d) :
                v.d[i].k = w.d[j].k /\ ScalarEq(v.d[i].v, w.d[j].v)
    ELSE v.t # "dict" /\ w.t # "dict" /\ ScalarEq(v, w)

\* ------------------------------------------------------------------------
\* Message transport
\* ------------------------------------------------------------------------
\* struct.pack('!I', n): 4 bytes, most significant first
pack_I(n) ==
    <<(n \div 16777216) % 256, (n \div 65536) % 256, (n \div 256) % 256, n % 256>>

\* struct.unpack('!I', b)[0]
unpack_I(b) == b[1] * 16777216 + b[2] * 65536 + b[3] * 256 + b[4]

\* the bytes send_msg hands to sock.sendall
send_msg(msg_dict) ==
    LET msg_bytes == json_dumps(msg_dict)
        msg_len == Len(msg_bytes)
    IN  pack_I(msg_len) \o msg_bytes

\* bytes-or-None returned by recv_all
NoBytes == [some |-> FALSE, b |-> <<>>]
SomeBytes(b) == [some |-> TRUE, b |-> b]

\* recv_all written as if one sock.recv always delivered the n bytes asked for
recv_all_OneRecv(data, n, packet) ==
    IF packet = <<>> THEN [done |-> TRUE, ret |-> NoBytes, data |-> data]
    ELSE [done |-> TRUE, ret |-> SomeBytes(data \o packet), data |-> data \o packet]

\* recv_all handing back what it has read when the stream closes
recv_all_KeepPartial(data, n, packet) ==
    IF packet = <<>> THEN [done |-> TRUE, ret |-> SomeBytes(data), data |-> data]
    ELSE IF Len(data \o packet) < n
         THEN [done |-> FALSE, ret |-> NoBytes, data |-> data \o packet]
         ELSE [done |-> TRUE, ret |-> SomeBytes(data \o packet), data |-> data \o packet]

\* one pass of recv_all's loop, given the packet sock.recv returned
recv_all(data, n, packet) ==
    IF packet = <<>> THEN [done |-> TRUE, ret |-> NoBytes, data |-> data]
    ELSE IF Len(data \o packet) < n
         THEN [done |-> FALSE, ret |-> NoBytes, data |-> data \o packet]
         ELSE [done |-> TRUE, ret |-> SomeBytes(data \o packet), data |-> data \o packet]

\* values recv_msg gives its caller: None, an object, or an exception
RNone == [kind |-> "none", val |-> JNull]
RObj(v) == [kind |-> "obj", val |-> v]
RRaise == [kind |-> "raise", val |-> JNull]

\* `not raw_msglen`, `not msg_bytes`: None and b"" are both falsy
NotBytes(r) == ~r.some \/ r.b = <<>>

\* recv_msg after recv_all(sock, msglen) returned msg_bytes
recv_msg_body(msg_bytes) ==
    IF NotBytes(msg_bytes) THEN RNone
    ELSE LET r == json_loads(msg_bytes.b) IN
         IF r.ok THEN RObj(r.val) ELSE RRaise

\* messages the client's commands build (lines 470-505), and an empty object
TMessages ==
    { JDict(<<[k |-> Utf8("type"), v |-> JStr(Utf8("chat"))],
              [k |-> Utf8("message"), v |-> JStr(Utf8("a\"b\\"))]>>),
      JDict(<<[k |-> Utf8("type"), v |-> JStr(Utf8("move"))],
              [k |-> Utf8("x"), v |-> JFloat(125, 1)],
              [k |-> Utf8("y"), v |-> JFloat(-25, 2)]>>),
      JDict(<<[k |-> Utf8("type"), v |-> JStr(Utf8("break_block"))],
              [k |-> Utf8("x"), v |-> JInt(10)],
              [k |-> Utf8("y"), v |-> JInt(-1)]>>),
      JDict(<<>>) }

\* payloads a peer can frame that are not a JSON document
BadPayloads == { <<>>, <<123>>, <<123, 125, 120>>, <<120>> }

\* the sending side runs send_msg(m): sendall writes the whole frame
TSendMsg(m) ==
    /\ ~wireClosed
    /\ Len(tSent) < MaxSends
    /\ wire' = wire \o send_msg(m)
    /\ tSent' = Append(tSent, [kind |-> "msg", m |-> m])
    /\ UNCHANGED <<wireClosed, rpc, rdata, msglen, rres, svars>>

\* the connection is lost after k bytes of the frame (k = 0: a clean close)
TSendPartial(m, k) ==
    /\ ~wireClosed
    /\ Len(tSent) < MaxSends
    /\ k < Len(send_msg(m))
    /\ wire' = wire \o SubSeq(send_msg(m), 1, k)
    /\ wireClosed' = TRUE
    /\ tSent' = Append(tSent, [kind |-> "partial", m |-> m])
    /\ UNCHANGED <<rpc, rdata, msglen, rres, svars>>

\* the peer frames a payload that is not JSON
TSendRaw(p) ==
    /\ ~wireClosed
    /\ Len(tSent) < MaxSends
    /\ wire' = wire \o pack_I(Len(p)) \o p
    /\ tSent' = Append(tSent, [kind |-> "raw", m |-> JStr(p)])
    /\ UNCHANGED <<wireClosed, rpc, rdata, msglen, rres, svars>>

\* what recv_msg does once recv_all(sock, 4) returned raw_msglen
recv_msg_hdr(raw_msglen) ==
    IF NotBytes(raw_msglen) THEN [ret |-> TRUE, res |-> RNone, msglen |-> 0]
    \* struct.unpack raises struct.error unless it is given exactly 4 bytes
    ELSE IF Len(raw_msglen.b) # 4 THEN [ret |-> TRUE, res |-> RRaise, msglen |-> 0]
    ELSE LET ml == unpack_I(raw_msglen.b) IN
         \* recv_all(sock, 0) returns b"" without reading
         IF ml = 0 THEN [ret |-> TRUE, res |-> recv_msg_body(SomeBytes(<<>>)), msglen |-> 0]
         ELSE [ret |-> FALSE, res |-> RNone, msglen |-> ml]

\* one sock.recv call of the receiving side, with the code that follows it up
\* to the next sock.recv; the receiver calls recv_msg again after an object
\* and stops after None or an exception
TRecv(packet) ==
    /\ rpc \in {"hdr", "body"}
    /\ LET n == IF rpc = "hdr" THEN 4 ELSE msglen
           st == recv_all(rdata, n, packet)
       IN  /\ Len(packet) <= n - Len(rdata)
           /\ IF packet = <<>> THEN wire = <<>> /\ wireClosed
              ELSE Len(packet) <= Len(wire) /\ packet = SubSeq(wire, 1, Len(packet))
           /\ wire' = SubSeq(wire, Len(packet) + 1, Len(wire))
           /\ IF ~st.done
              THEN /\ rdata' = st.data
                   /\ UNCHANGED <<rpc, msglen, rres>>
              ELSE IF rpc = "hdr"
              THEN LET h == recv_msg_hdr(st.ret) IN
                   IF h.ret
                   THEN /\ rres' = Append(rres, h.res)
                        /\ rpc' = "stop"
                        /\ rdata' = <<>>
                        /\ UNCHANGED msglen
                   ELSE /\ rpc' = "body"
                        /\ msglen' = h.msglen
                        /\ rdata' = <<>>
                        /\ UNCHANGED rres
              ELSE LET r == recv_msg_body(st.ret) IN
                   /\ rres' = Append(rres, r)
                   /\ rpc' = IF r.kind = "obj" THEN "hdr" ELSE "stop"
                   /\ rdata' = <<>>
                   /\ UNCHANGED msglen
    /\ UNCHANGED <<wireClosed, tSent, svars>>

\* ------------------------------------------------------------------------
\* ServerConnection: construction, connect, outbound commands, teardown
\* ------------------------------------------------------------------------
PLAYER_ID == "abc123"

\* len(self.chat_messages) > 100
ChatCapacity == 100

None == <<>>
Some(v) == <<v>>

EmptyMap == [k \in {} |-> 0]
MapSet(f, k, v) == [q \in (DOMAIN f) \cup {k} |-> IF q = k THEN v ELSE f[q]]
MapDel(f, k) == [q \in (DOMAIN f) \ {k} |-> f[q]]

\* [None] * 7
EmptyHotbar == [i \in 1..7 |-> None]

\* ServerConnection.__init__; the threads have not started
Init ==
    \* the stream between send_msg and recv_msg: nothing written, nothing read
    /\ wire = <<>>
    /\ wireClosed = FALSE
    /\ tSent = <<>>
    /\ rpc = "hdr"
    /\ rdata = <<>>
    /\ msglen = 0
    /\ rres = <<>>
    \* ServerConnection.__init__
    /\ sock = "none"
    /\ connected = FALSE
    /\ player_level = 0
    /\ server_name = ""
    /\ motd = ""
    /\ world = <<>>
    /\ players = EmptyMap
    /\ player_colors = EmptyMap
    /\ player_x = 10
    /\ player_y = 3
    /\ hotbar = EmptyHotbar
    /\ chat_messages = <<>>
    /\ last_position_send = 0
    /\ disconnect_reason = None
    /\ respawn_flag = FALSE
    /\ pcUI = "idle"
    /\ connectResult = "none"
    /\ pcListen = "none"
    /\ msg = [k |-> "none"]
    /\ pend = <<>>
    /\ exitPath = "none"
    /\ sent = <<>>
    /\ inbound = <<>>
    /\ peerClosed = FALSE
    /\ nframes = 0
    /\ now = 0
    /\ last = [op |-> "init"]
    \* game_screen has not been entered
    /\ wait_time = 0
    /\ gs_player_x = <<>>
    /\ gs_player_y = <<>>
    /\ player_vx = 0
    /\ player_vy = 0
    /\ on_ground = FALSE
    /\ player_grid_x = None
    /\ player_grid_y = None
    /\ running = TRUE
    /\ chat_open = FALSE
    /\ frame_count = 0
    /\ keys = {}
    /\ delta_time = 0
    /\ pcGame = "loop"
    /\ snapped = FALSE
    /\ selected_slot = 0
    /\ peer_iter = [frame |-> 0, size |-> 0, pos |-> 0, done |-> TRUE]

LoginPacket ==
    [type |-> "login", id |-> PLAYER_ID, password |-> "pw", color |-> "blue"]

\* connect setting the flag as soon as the socket is open, before the login
connect_socket_FlagFirst(ok) ==
    /\ pcUI = "idle"
    /\ IF ok
       THEN /\ sock' = "open"
            /\ pcUI' = "opened"
            /\ connected' = TRUE
            /\ UNCHANGED connectResult
       ELSE /\ connected' = FALSE
            /\ connectResult' = "False"
            /\ pcUI' = "failed"
            /\ UNCHANGED sock
    /\ last' = [op |-> "connect_socket", ok |-> ok]
    /\ UNCHANGED <<tvars, gsvars, last_position_send, modelvars, pcListen, msg, pend,
                   exitPath, sent, inbound, peerClosed, nframes, now>>

\* connect, lines 362-364: create the socket and connect within the timeout;
\* on failure the except clause runs (lines 380-383)
connect_socket(ok) ==
    /\ pcUI = "idle"
    /\ IF ok
       THEN /\ sock' = "open"
            /\ pcUI' = "opened"
            /\ UNCHANGED <<connected, connectResult>>
       ELSE /\ connected' = FALSE
            /\ connectResult' = "False"
            /\ pcUI' = "failed"
            /\ UNCHANGED sock
    /\ last' = [op |-> "connect_socket", ok |-> ok]
    /\ UNCHANGED <<tvars, gsvars, last_position_send, modelvars, pcListen, msg, pend,
                   exitPath, sent, inbound, peerClosed, nframes, now>>

\* connect going on after a login that could not be sent
connect_login_IgnoreFail(ok) ==
    /\ pcUI = "opened"
    /\ sent' = IF ok THEN Append(sent, LoginPacket) ELSE sent
    /\ pcUI' = "loginSent"
    /\ last' = [op |-> "connect_login", ok |-> ok]
    /\ UNCHANGED <<tvars, gsvars, sock, connected, connectResult, last_position_send, modelvars,
                   pcListen, msg, pend, exitPath, inbound, peerClosed, nframes, now>>

\* connect, lines 367-372: send the login packet; a failed send raises
connect_login(ok) ==
    /\ pcUI = "opened"
    /\ IF ok
       THEN /\ sent' = Append(sent, LoginPacket)
            /\ pcUI' = "loginSent"
            /\ UNCHANGED <<connected, connectResult>>
       ELSE /\ connected' = FALSE
            /\ connectResult' = "False"
            /\ pcUI' = "failed"
            /\ UNCHANGED sent
    /\ last' = [op |-> "connect_login", ok |-> ok]
    /\ UNCHANGED <<tvars, gsvars, sock, last_position_send, modelvars, pcListen, msg, pend,
                   exitPath, inbound, peerClosed, nframes, now>>

\* connect, lines 375-379: drop the timeout, set the flag, start the thread,
\* return True to the join flow ("session") or to refresh_servers ("refresh")
connect_start(caller) ==
    /\ pcUI = "loginSent"
    /\ connected' = TRUE
    /\ pcListen' = "check"
    /\ connectResult' = "True"
    /\ pcUI' = caller
    /\ last' = [op |-> "connect_start"]
    /\ UNCHANGED <<tvars, gsvars, sock, last_position_send, modelvars, msg, pend, exitPath,
                   sent, inbound, peerClosed, nframes, now>>

\* a command body without the `if self.connected` guard
Transmit_NoGuard(packet, ok) ==
    IF ok
    THEN /\ Len(sent) < MaxSent
         /\ sent' = Append(sent, packet)
         /\ UNCHANGED connected
    ELSE /\ connected' = FALSE
         /\ UNCHANGED sent

\* the body shared by the outbound commands:
\*   if self.connected: try: send_msg(self.sock, packet) except: self.connected = False
Transmit(packet, ok) ==
    IF connected
    THEN IF ok
         THEN /\ Len(sent) < MaxSent
              /\ sent' = Append(sent, packet)
              /\ UNCHANGED connected
         ELSE /\ connected' = FALSE
              /\ UNCHANGED sent
    ELSE UNCHANGED <<connected, sent>>

\* the record of a command call and how it ended: "off" (connected was false),
\* "sent", "failed" (the write raised) or "held" (send_position's interval)
Outcome(conn, ok) == IF ~conn THEN "off" ELSE IF ok THEN "sent" ELSE "failed"

Called(op, res) == [op |-> op, res |-> res]

CmdFrame == <<tvars, gsvars, sock, modelvars, pcUI, connectResult, pcListen, msg, pend, exitPath,
              inbound, peerClosed, nframes>>

send_chat(message, ok) ==
    /\ pcUI = "session"
    /\ Transmit([type |-> "chat", message |-> message], ok)
    /\ last' = Called("send_chat", Outcome(connected, ok))
    /\ UNCHANGED <<CmdFrame, last_position_send, now>>

\* a send_position that notes the time of a write that failed as well
send_position_body_StampAlways(x, y, t, ok) ==
    /\ t >= now
    /\ IF connected
       THEN /\ now' = t
            /\ IF t - last_position_send > 5
               THEN /\ Transmit([type |-> "move", x |-> x, y |-> y], ok)
                    /\ last_position_send' = t
                    /\ last' = Called("send_position", Outcome(TRUE, ok))
               ELSE /\ UNCHANGED <<connected, sent, last_position_send>>
                    /\ last' = Called("send_position", "held")
       ELSE /\ UNCHANGED <<connected, sent, last_position_send, now>>
            /\ last' = Called("send_position", "off")

\* the body of send_position (477-485); t is the value time.time() returns,
\* read only when connected; times are in 1/100 time units, so 0.05 is 5
send_position_body(x, y, t, ok) ==
    /\ t >= now
    /\ IF connected
       THEN /\ now' = t
            /\ IF t - last_position_send > 5
               THEN /\ Transmit([type |-> "move", x |-> x, y |-> y], ok)
                    /\ last_position_send' = IF ok THEN t ELSE last_position_send
                    /\ last' = Called("send_position", Outcome(TRUE, ok))
               ELSE /\ UNCHANGED <<connected, sent, last_position_send>>
                    /\ last' = Called("send_position", "held")
       ELSE /\ UNCHANGED <<connected, sent, last_position_send, now>>
            /\ last' = Called("send_position", "off")

\* a call of send_position by the UI thread of a running session
send_position(x, y, t, ok) ==
    /\ pcUI = "session"
    /\ send_position_body(x, y, t, ok)
    /\ UNCHANGED CmdFrame

break_block(x, y, ok) ==
    /\ pcUI = "session"
    /\ Transmit([type |-> "break_block", x |-> x, y |-> y], ok)
    /\ last' = Called("break_block", Outcome(connected, ok))
    /\ UNCHANGED <<CmdFrame, last_position_send, now>>

place_block(x, y, slot, ok) ==
    /\ pcUI = "session"
    /\ Transmit([type |-> "place_block", x |-> x, y |-> y, slot |-> slot], ok)
    /\ last' = Called("place_block", Outcome(connected, ok))
    /\ UNCHANGED <<CmdFrame, last_position_send, now>>

update_color(color, ok) ==
    /\ pcUI = "session"
    /\ Transmit([type |-> "update_color", color |-> color], ok)
    /\ last' = Called("update_color", Outcome(connected, ok))
    /\ UNCHANGED <<CmdFrame, last_position_send, now>>

\* game_screen cleanup, lines 1665-1669: close the socket if still connected
game_cleanup ==
    /\ pcUI = "session"
    /\ IF connected
       THEN sock' = "closed" /\ pcUI' = "closing"
       ELSE pcUI' = "closed" /\ UNCHANGED sock
    /\ last' = [op |-> "game_cleanup"]
    /\ UNCHANGED <<tvars, gsvars, connected, last_position_send, modelvars, connectResult,
                   pcListen, msg, pend, exitPath, sent, inbound, peerClosed, nframes, now>>

\* refresh_servers, lines 1121-1124: close the socket unconditionally
refresh_close ==
    /\ pcUI = "refresh"
    /\ sock' = "closed"
    /\ pcUI' = "closing"
    /\ last' = [op |-> "refresh_close"]
    /\ UNCHANGED <<tvars, gsvars, connected, last_position_send, modelvars, connectResult,
                   pcListen, msg, pend, exitPath, sent, inbound, peerClosed, nframes, now>>

\* conn.connected = False after the close (lines 1670 and 1125)
cleanup_flag ==
    /\ pcUI = "closing"
    /\ connected' = FALSE
    /\ pcUI' = "closed"
    /\ last' = [op |-> "cleanup_flag"]
    /\ UNCHANGED <<tvars, gsvars, sock, last_position_send, modelvars, connectResult, pcListen,
                   msg, pend, exitPath, sent, inbound, peerClosed, nframes, now>>

\* ------------------------------------------------------------------------
\* Inbound frames and listen_server
\* ------------------------------------------------------------------------
\* msg.get(key, default): a key the message lacks gives the default
Has(m, key) == key \in DOMAIN m
Get(m, key, default) == IF Has(m, key) THEN m[key] ELSE default

\* statements a handler runs, one attribute write each
Set(a, v) == [f |-> "set", a |-> a, v |-> v]
Raise == [f |-> "raise"]

\* lines 395-403
on_welcome(m) ==
    << Set("server_name", Get(m, "server", "")),
       Set("motd", Get(m, "motd", "")),
       Set("world", Get(m, "world", <<>>)),
       Set("player_x", Get(m, "x", 10)),
       Set("player_y", Get(m, "y", 3)),
       Set("hotbar", Get(m, "hotbar", EmptyHotbar)),
       Set("player_level", Get(m, "level", 0)) >>

\* lines 405-409
on_respawn(m) ==
    << Set("player_x", Get(m, "x", 10)),
       Set("player_y", Get(m, "y", 3)),
       Set("respawn_flag", TRUE) >>

\* lines 411-418: the formatted line f"{pid} [{level}] >> {text}"
on_chat(m) ==
    << [f |-> "chat_append",
        v |-> [from |-> Get(m, "from", "???"), level |-> Get(m, "level", 0),
               text |-> Get(m, "message", "")]],
       [f |-> "chat_trim"] >>

\* the bounds test without its lower bounds: y < len(self.world) and
\* x < len(self.world[0])
on_update_block_NoLowerBound(m, w) ==
    IF ~Has(m, "y") THEN <<Raise>>
    ELSE IF ~(m.y < Len(w)) THEN <<>>
    ELSE IF ~Has(m, "x") \/ w = <<>> THEN <<Raise>>
    ELSE IF ~(m.x < Len(w[1])) THEN <<>>
    ELSE << [f |-> "world_cell", x |-> m.x, y |-> m.y, v |-> Get(m, "block", None)] >>

\* lines 420-424: 0 <= y < len(self.world) and 0 <= x < len(self.world[0]);
\* comparing None with an int raises TypeError, `and` skips x when y fails
on_update_block(m, w) ==
    IF ~Has(m, "y") THEN <<Raise>>
    ELSE IF ~(0 <= m.y /\ m.y < Len(w)) THEN <<>>
    ELSE IF ~Has(m, "x") THEN <<Raise>>
    ELSE IF ~(0 <= m.x /\ m.x < Len(w[1])) THEN <<>>
    ELSE IF m.x >= Len(w[m.y + 1]) THEN <<Raise>>
    ELSE << [f |-> "world_cell", x |-> m.x, y |-> m.y, v |-> Get(m, "block", None)] >>

\* lines 426-432
on_player_join(m) ==
    << [f |-> "players_set", id |-> Get(m, "id", "None"),
        v |-> <<Get(m, "x", None), Get(m, "y", None)>>],
       [f |-> "colors_set", id |-> Get(m, "id", "None"), v |-> Get(m, "color", "blue")] >>

\* a move branch that updates known peers only
on_player_move_KnownOnly(m) ==
    IF Get(m, "id", "None") \in DOMAIN players
    THEN << [f |-> "players_set", id |-> Get(m, "id", "None"),
             v |-> <<Get(m, "x", None), Get(m, "y", None)>>] >>
    ELSE <<>>

\* lines 434-437
on_player_move(m) ==
    << [f |-> "players_set", id |-> Get(m, "id", "None"),
        v |-> <<Get(m, "x", None), Get(m, "y", None)>>] >>

\* lines 439-443
on_player_color(m) ==
    << [f |-> "colors_set", id |-> Get(m, "id", "None"), v |-> Get(m, "color", "blue")] >>

\* the leave branch deleting without its `if pid in ...` tests: del raises
\* KeyError for an id that is absent
on_player_leave_NoTest(m) ==
    IF Get(m, "id", "None") \notin DOMAIN players \/ Get(m, "id", "None") \notin DOMAIN player_colors
    THEN <<Raise>>
    ELSE << [f |-> "players_del", id |-> Get(m, "id", "None")],
            [f |-> "colors_del", id |-> Get(m, "id", "None")] >>

\* lines 445-451
on_player_leave(m) ==
    << [f |-> "players_del", id |-> Get(m, "id", "None")],
       [f |-> "colors_del", id |-> Get(m, "id", "None")] >>

\* lines 453-454
on_hotbar_update(m) == << Set("hotbar", Get(m, "hotbar", EmptyHotbar)) >>

\* the disconnect branch without its `self.connected = False; break`
on_disconnect_NoBreak(m) ==
    << Set("disconnect_reason", Some(Get(m, "reason", "Disconnected"))) >>

\* a disconnect branch that clears the flag and breaks before it stores the reason
on_disconnect_FlagFirst(m) == << [f |-> "disconnect_exit"] >>

\* lines 456-461
on_disconnect(m) ==
    << Set("disconnect_reason", Some(Get(m, "reason", "Disconnected"))),
       [f |-> "disconnect_exit"] >>

\* an else branch that rejects an unrecognised type
on_other_Raise(m) == <<Raise>>

\* no branch of the if/elif chain matches
on_other(m) == <<>>

\* the if/elif chain of listen_server on msg.get("type")
Dispatch(m, w) ==
    LET ty == Get(m, "type", "None") IN
    CASE ty = "welcome" -> on_welcome(m)
      [] ty = "respawn" -> on_respawn(m)
      [] ty = "chat" -> on_chat(m)
      [] ty = "update_block" -> on_update_block(m, w)
      [] ty = "player_join" -> on_player_join(m)
      [] ty = "player_move" -> on_player_move(m)
      [] ty = "player_color" -> on_player_color(m)
      [] ty = "player_leave" -> on_player_leave(m)
      [] ty = "hotbar_update" -> on_hotbar_update(m)
      [] ty = "disconnect" -> on_disconnect(m)
      [] OTHER -> on_other(m)

KnownTypes ==
    {"welcome", "respawn", "chat", "update_block", "player_join", "player_move",
     "player_color", "player_leave", "hotbar_update", "disconnect"}

\* what recv_msg gives listen_server for a frame on the stream:
\*   "trunc"     the stream closes inside the frame          -> None
\*   "zero_len"  a length prefix of 0                        -> None
\*   "bad_json"  a whole frame whose payload is not JSON     -> json.loads raises
\*   "falsy"     a whole frame holding {} (or [], 0, null)   -> that value
\*   "non_dict"  a whole frame holding a non-empty JSON array -> that value
\*   "obj"       a whole frame holding a non-empty JSON object m
recv_msg(frame) ==
    CASE frame.k \in {"trunc", "zero_len"} -> "none"
      [] frame.k = "bad_json" -> "raise"
      [] OTHER -> "value"

\* leaving the loop with `break` alone, the flag untouched
ExitLoop_KeepFlag(path) ==
    /\ UNCHANGED connected
    /\ pcListen' = "exited"
    /\ exitPath' = path
    /\ pend' = <<>>

\* the loop's exit paths:
\*   "closed"      if not msg: self.connected = False; break      (389-392)
\*   "error"       except Exception: self.connected = False; break (463-466)
\*   "disconnect"  the disconnect branch                          (456-461)
\*   "flag"        the while condition read self.connected False  (386)
ExitLoop(path) ==
    /\ connected' = (IF path = "flag" THEN connected ELSE FALSE)
    /\ pcListen' = "exited"
    /\ exitPath' = path
    /\ pend' = <<>>

ListenFrame == <<tvars, gsvars, sock, last_position_send, pcUI, connectResult, sent, peerClosed,
                 nframes, now>>

\* a loop that sets the flag again when it finds it cleared
listen_server_check_Reconnect ==
    /\ pcListen = "check"
    /\ IF ~connected
       THEN connected' = TRUE /\ pcListen' = "recv" /\ UNCHANGED <<exitPath, pend>>
       ELSE IF sock = "closed" THEN ExitLoop("error")
       ELSE pcListen' = "recv" /\ UNCHANGED <<connected, exitPath, pend>>
    /\ last' = [op |-> "loop_check"]
    /\ UNCHANGED <<ListenFrame, modelvars, inbound, msg>>

\* while self.connected: ... msg = recv_msg(self.sock); a socket this side has
\* closed makes the call raise at once
listen_server_check ==
    /\ pcListen = "check"
    /\ IF ~connected THEN ExitLoop("flag")
       ELSE IF sock = "closed" THEN ExitLoop("error")
       ELSE pcListen' = "recv" /\ UNCHANGED <<connected, exitPath, pend>>
    /\ last' = [op |-> "loop_check"]
    /\ UNCHANGED <<ListenFrame, modelvars, inbound, msg>>

\* the object recv_msg returned, {} when it returned none
Payload(frame) == IF Has(frame, "m") THEN frame.m ELSE EmptyMap

\* a loop body that skips a frame it cannot decode
RecvOutcome_Lenient(frame) ==
    IF recv_msg(frame) = "none" \/ (recv_msg(frame) = "value" /\ frame.k = "falsy")
    THEN "closed"
    ELSE IF frame.k = "non_dict" THEN "error"
    ELSE "dispatch"

\* lines 387-393 and 463-466 for the frame read: "closed" when `not msg`,
\* "error" when recv_msg or msg.get raises, else the if/elif chain runs
RecvOutcome(frame) ==
    IF recv_msg(frame) = "none" \/ (recv_msg(frame) = "value" /\ frame.k = "falsy")
    THEN "closed"
    ELSE IF recv_msg(frame) = "raise" \/ frame.k = "non_dict" THEN "error"
    ELSE "dispatch"

\* recv_msg returns (a frame arrived, or the stream is closed and drained) and
\* the loop body runs up to the first statement of the handler
listen_server_recv ==
    /\ pcListen = "recv"
    /\ IF inbound = <<>>
       THEN /\ peerClosed
            /\ ExitLoop("closed")
            /\ msg' = [k |-> "eof"]
            /\ UNCHANGED inbound
       ELSE LET frame == Head(inbound) IN
            /\ inbound' = Tail(inbound)
            /\ msg' = frame
            /\ IF RecvOutcome(frame) = "dispatch"
               THEN /\ pend' = Dispatch(Payload(frame), world)
                    /\ pcListen' = IF pend' = <<>> THEN "check" ELSE "apply"
                    /\ UNCHANGED <<connected, exitPath>>
               ELSE ExitLoop(RecvOutcome(frame))
    /\ last' = [op |-> "recv"]
    /\ UNCHANGED <<ListenFrame, modelvars>>

\* sock.recv raises inside recv_msg: the connection was reset, or the socket
\* was closed by this side while the thread was blocked
listen_server_recv_error ==
    /\ pcListen = "recv"
    /\ ExitLoop("error")
    /\ last' = [op |-> "recv_error"]
    /\ UNCHANGED <<ListenFrame, modelvars, inbound, msg>>

IsSet(st, a) == st.f = "set" /\ st.a = a

\* the next statement of the handler; after the last one the loop goes round
listen_server_apply ==
    /\ pcListen = "apply"
    /\ pend # <<>>
    /\ LET st == Head(pend) IN
       /\ IF st.f = "raise" THEN ExitLoop("error")
          ELSE IF st.f = "disconnect_exit" THEN ExitLoop("disconnect")
          ELSE /\ pend' = Tail(pend)
               /\ pcListen' = IF Tail(pend) = <<>> THEN "check" ELSE "apply"
               /\ UNCHANGED <<connected, exitPath>>
       /\ server_name' = IF IsSet(st, "server_name") THEN st.v ELSE server_name
       /\ motd' = IF IsSet(st, "motd") THEN st.v ELSE motd
       /\ player_x' = IF IsSet(st, "player_x") THEN st.v ELSE player_x
       /\ player_y' = IF IsSet(st, "player_y") THEN st.v ELSE player_y
       /\ hotbar' = IF IsSet(st, "hotbar") THEN st.v ELSE hotbar
       /\ player_level' = IF IsSet(st, "player_level") THEN st.v ELSE player_level
       /\ respawn_flag' = IF IsSet(st, "respawn_flag") THEN st.v ELSE respawn_flag
       /\ disconnect_reason' =
              IF IsSet(st, "disconnect_reason") THEN st.v ELSE disconnect_reason
       /\ world' =
              IF IsSet(st, "world") THEN st.v
              ELSE IF st.f = "world_cell"
                   THEN [world EXCEPT ![st.y + 1][st.x + 1] = st.v]
                   ELSE world
       /\ players' =
              IF st.f = "players_set" THEN MapSet(players, st.id, st.v)
              ELSE IF st.f = "players_del" THEN MapDel(players, st.id)
              ELSE players
       /\ player_colors' =
              IF st.f = "colors_set" THEN MapSet(player_colors, st.id, st.v)
              ELSE IF st.f = "colors_del" THEN MapDel(player_colors, st.id)
              ELSE player_colors
       /\ chat_messages' =
              IF st.f = "chat_append" THEN Append(chat_messages, st.v)
              ELSE IF st.f = "chat_trim" /\ Len(chat_messages) > ChatCapacity
                   THEN Tail(chat_messages)
                   ELSE chat_messages
       /\ last' = [op |-> "apply"]
    /\ UNCHANGED <<ListenFrame, inbound, msg>>

\* ---- the server, an opaque peer ----
W23 == << <<"air", "air", "air">>, <<"stone", "stone", "stone">> >>

Obj(m) == [k |-> "obj", m |-> m]

Frames ==
    { Obj([type |-> "welcome", server |-> "Augu", motd |-> "hello", world |-> W23,
           x |-> 1, y |-> 0, hotbar |-> EmptyHotbar, level |-> 2]),
      Obj([type |-> "respawn", x |-> 2, y |-> 0]),
      Obj([type |-> "player_join", id |-> "p1", x |-> 1, y |-> 0, color |-> "red"]),
      Obj([type |-> "disconnect", reason |-> "kicked"]),
      Obj([type |-> "disconnect"]),
      Obj([type |-> "ping", x |-> 1, y |-> 0, id |-> "p1"]),
      [k |-> "bad_json"], [k |-> "non_dict"], [k |-> "trunc"] }

EnvFrame == <<tvars, gsvars, connvars, modelvars, pcUI, connectResult, pcListen, msg, pend,
              exitPath,
              sent, now>>

\* the server writes the next frame of its stream; a truncated frame is the
\* last thing it writes. recv_msg takes frames in order, one per call, so a
\* frame is put on the stream when the one before it has been taken: the loop
\* can be anywhere in its handler, or past its exit, when the frame arrives
server_send(frame) ==
    /\ sock # "none"
    /\ ~peerClosed
    /\ nframes < MaxFrames
    /\ inbound = <<>>
    /\ inbound' = Append(inbound, frame)
    /\ nframes' = nframes + 1
    /\ peerClosed' = (frame.k = "trunc")
    /\ last' = [op |-> "server_send"]
    /\ UNCHANGED EnvFrame

\* the server closes the connection between frames
server_close ==
    /\ sock # "none"
    /\ ~peerClosed
    /\ peerClosed' = TRUE
    /\ last' = [op |-> "server_close"]
    /\ UNCHANGED <<EnvFrame, inbound, nframes>>

\* cell coordinates the commands report
Coords == {1}

\* clock readings of the UI thread, in 1/100 time units
Times == {t \in 0..MaxTime : t % 6 = 0}

Next ==
    \/ \E ok \in BOOLEAN : connect_socket(ok)
    \/ \E ok \in BOOLEAN : connect_login(ok)
    \/ \E caller \in {"session", "refresh"} : connect_start(caller)
    \/ \E ok \in BOOLEAN : send_chat("hi", ok)
    \/ \E x, y \in Coords, t \in Times, ok \in BOOLEAN : send_position(x, y, t, ok)
    \/ \E x, y \in Coords, ok \in BOOLEAN : break_block(x, y, ok)
    \/ \E x, y \in Coords, slot \in {0}, ok \in BOOLEAN : place_block(x, y, slot, ok)
    \/ \E ok \in BOOLEAN : update_color("red", ok)
    \/ game_cleanup
    \/ refresh_close
    \/ cleanup_flag
    \/ listen_server_check
    \/ listen_server_recv
    \/ listen_server_recv_error
    \/ listen_server_apply
    \/ \E frame \in Frames : server_send(frame)
    \/ server_close

Spec == Init /\ [][Next]_vars

\* ------------------------------------------------------------------------
\* Claims about the session (Spec)
\* ------------------------------------------------------------------------
Cmds == {"send_chat", "send_position", "break_block", "place_block", "update_color"}

LoginsSent == {i \in 1..Len(sent) : sent[i].type = "login"}

\* C3: the login is the first message written and is written once; connected
\* is true and the receive loop runs only when the login has been sent, so no
\* command can be written ahead of it.
C3_LoginFirstOnce ==
    /\ sent # <<>> => sent[1] = LoginPacket
    /\ Cardinality(LoginsSent) <= 1
    /\ (connected \/ pcListen # "none" \/ connectResult = "True") => LoginsSent = {1}

\* a command was written after the login on a connected session
C3_Witness ==
    /\ connected /\ pcListen = "recv" /\ connectResult = "True"
    /\ Len(sent) = 2 /\ sent[1].type = "login" /\ sent[2].type = "chat"

\* C4: when the socket cannot be opened or the login cannot be sent, connect
\* returns False, connected is false and no receive loop is started.
C4_ConnectFailure ==
    /\ (last.op \in {"connect_socket", "connect_login"} /\ ~last.ok)
           => connectResult = "False"
    /\ connectResult = "False"
           => ~connected /\ pcListen = "none" /\ exitPath = "none" /\ pcUI = "failed"

\* the socket opened, the login send failed, and the server went on writing
C4_Witness ==
    /\ connectResult = "False" /\ sock = "open" /\ sent = <<>>
    /\ inbound # <<>> /\ pcListen = "none" /\ ~connected

\* C5: a command called while connected is false writes nothing and changes no
\* attribute; a command whose write fails clears connected and writes nothing.
C5_CommandsGuarded ==
    [][ last'.op \in Cmds =>
          /\ ~connected <=> last'.res = "off"
          /\ last'.res = "off" =>
                 UNCHANGED <<connvars, modelvars, sent, now, pcUI, pcListen, msg, pend,
                             exitPath, inbound>>
          /\ last'.res = "failed" => connected /\ ~connected' /\ sent' = sent
          /\ sent' # sent => last'.res = "sent" /\ connected ]_vars

\* connected was cleared by a failed write (the loop and the teardown have not
\* touched it), and a later command found it false
C5_Witness ==
    /\ last.op \in Cmds /\ last.res = "off"
    /\ ~connected /\ pcUI = "session" /\ exitPath = "none" /\ pcListen # "exited"

IsDisconnect(frame) == frame.k = "obj" /\ Get(frame.m, "type", "None") = "disconnect"

\* C6: a disconnect message records the server's reason, clears connected and
\* ends the loop; whatever follows it on the stream is never read or applied.
C6_DisconnectEndsLoop ==
    [][ /\ IsDisconnect(msg') =>
            \/ pcListen' = "apply"
            \/ /\ pcListen' = "exited" /\ exitPath' = "disconnect" /\ ~connected'
               /\ disconnect_reason' = Some(Get(msg'.m, "reason", "Disconnected"))
        /\ (IsDisconnect(msg) /\ pcListen = "exited") =>
               UNCHANGED <<msg, pend, pcListen, exitPath, modelvars, connected>> ]_vars

\* the loop ended on a disconnect carrying a reason, with a later frame unread
C6_Witness ==
    /\ IsDisconnect(msg) /\ pcListen = "exited" /\ exitPath = "disconnect"
    /\ disconnect_reason = Some("kicked") /\ ~connected
    /\ inbound # <<>> /\ nframes = 2

C8_NoReconnect == [][ (pcListen # "none" /\ ~connected) => ~connected' ]_vars

\* the session was connected, lost the connection and was torn down
C8_Witness ==
    /\ connectResult = "True" /\ ~connected /\ pcListen = "exited"
    /\ pcUI = "closed" /\ Len(sent) = 2

RecvStep == pcListen = "recv" /\ inbound # <<>> /\ inbound' = Tail(inbound)

\* C9: a truncated frame or a frame whose payload is not JSON ends the session
\* like a closed stream: connected false, loop ended, model untouched, no
\* disconnect reason.
C9_ViolationLikeClose ==
    [][ (RecvStep /\ Head(inbound).k \in {"trunc", "bad_json"}) =>
          /\ ~connected' /\ pcListen' = "exited" /\ pend' = <<>>
          /\ exitPath' \in {"closed", "error"}
          /\ UNCHANGED modelvars
          /\ disconnect_reason' = None ]_vars

\* a frame that is not JSON ended a session whose model had been written
C9_Witness ==
    /\ msg.k = "bad_json" /\ pcListen = "exited" /\ ~connected
    /\ disconnect_reason = None /\ (players # EmptyMap \/ world # <<>>)

\* C10: a message of an unrecognised type changes nothing in the model, leaves
\* connected as it is, and the loop goes round to read the next message.
C10_UnknownIgnored ==
    [][ (RecvStep /\ Head(inbound).k = "obj"
           /\ Get(Head(inbound).m, "type", "None") \notin KnownTypes) =>
          /\ UNCHANGED <<modelvars, connected, exitPath>>
          /\ pend' = <<>> /\ pcListen' = "check" ]_vars

\* after an unrecognised message the loop is reading again, the model kept
C10_Witness ==
    /\ msg.k = "obj" /\ msg.m.type = "ping" /\ pcListen = "recv" /\ connected
    /\ players # EmptyMap /\ nframes = 2


TNext ==
    \/ \E m \in TMessages : TSendMsg(m)
    \/ \E m \in TMessages : \E k \in 0..Len(send_msg(m)) : TSendPartial(m, k)
    \/ \E p \in BadPayloads : TSendRaw(p)
    \/ \E k \in 0..Len(wire) : TRecv(SubSeq(wire, 1, k))

SpecTransport == Init /\ [][TNext]_vars

\* C1: every message written whole by send_msg is returned by the matching
\* recv_msg call as an equal object, in whatever chunks the bytes arrive.
C1_RoundTrip ==
    \A i \in 1..Len(rres) :
        /\ i <= Len(tSent)
        /\ tSent[i].kind = "msg" => rres[i].kind = "obj" /\ PyEq(rres[i].val, tSent[i].m)

\* two frames sent whole; the first came back, the second is arriving in pieces
C1_Witness ==
    /\ Len(tSent) = 2 /\ tSent[1].kind = "msg" /\ tSent[2].kind = "msg"
    /\ tSent[1].m # tSent[2].m
    /\ Len(rres) = 1 /\ rres[1].kind = "obj" /\ rres[1].val.d # <<>>
    /\ rpc = "body" /\ Len(rdata) > 0 /\ Len(rdata) < msglen

\* C2: when the stream closes inside the length prefix or inside the payload,
\* recv_msg returns None, never an object.
C2_TruncatedIsNone ==
    \A i \in 1..Len(rres) :
        (i <= Len(tSent) /\ tSent[i].kind = "partial") => rres[i] = RNone

\* a frame cut inside its payload (after the prefix) was answered with None
C2_Witness ==
    /\ Len(rres) = Len(tSent) /\ Len(tSent) >= 1
    /\ tSent[Len(tSent)].kind = "partial"
    /\ rres[Len(rres)] = RNone
    /\ msglen > 0 /\ rpc = "stop"

\* ------------------------------------------------------------------------
\* The replicated model under the server's messages (SpecReplica)
\* ------------------------------------------------------------------------
MaxUpdates == 3

\* a grid of one row and two columns
W12 == << <<"air", "air">> >>

\* a hotbar array of three slots
Hotbar3 == [i \in 1..3 |-> None]

\* messages of the kinds listen_server handles (lines 395-454), with ids the
\* client knows, ids it does not, and its own id; coordinates inside and
\* outside the grids above, and absent
ReplicaFrames ==
    { Obj([type |-> "welcome", server |-> "Augu", motd |-> "hello", world |-> W23,
           x |-> 1, y |-> 0, hotbar |-> EmptyHotbar, level |-> 2]),
      Obj([type |-> "welcome", server |-> "Augu", motd |-> "hello", world |-> W12,
           x |-> 0, y |-> 0, hotbar |-> Hotbar3, level |-> 2]),
      Obj([type |-> "update_block", x |-> 2, y |-> 1, block |-> "dirt"]),
      Obj([type |-> "update_block", x |-> 3, y |-> 1, block |-> "dirt"]),
      Obj([type |-> "update_block", x |-> 0, y |-> -1, block |-> "dirt"]),
      Obj([type |-> "update_block", x |-> -1, y |-> 0, block |-> "dirt"]),
      Obj([type |-> "update_block", block |-> "dirt"]),
      Obj([type |-> "player_join", id |-> "p1", x |-> 1, y |-> 0, color |-> "red"]),
      Obj([type |-> "player_join", id |-> "p2", x |-> 2, y |-> 0, color |-> "blue"]),
      Obj([type |-> "player_join", id |-> PLAYER_ID, x |-> 1, y |-> 0, color |-> "red"]),
      Obj([type |-> "player_move", id |-> "p1", x |-> 2, y |-> 1]),
      Obj([type |-> "player_color", id |-> "p1", color |-> "green"]),
      Obj([type |-> "player_leave", id |-> "p1"]),
      Obj([type |-> "hotbar_update", hotbar |-> Hotbar3]) }

\* the server writes the next message of its stream
server_update(frame) ==
    /\ sock # "none"
    /\ ~peerClosed
    /\ nframes < MaxUpdates
    /\ inbound = <<>>
    /\ inbound' = Append(inbound, frame)
    /\ nframes' = nframes + 1
    /\ last' = [op |-> "server_update"]
    /\ UNCHANGED <<EnvFrame, peerClosed>>

ReplicaNext ==
    \/ \E ok \in BOOLEAN : connect_socket(ok)
    \/ \E ok \in BOOLEAN : connect_login(ok)
    \/ \E caller \in {"session"} : connect_start(caller)
    \/ listen_server_check
    \/ listen_server_recv
    \/ listen_server_apply
    \/ \E frame \in ReplicaFrames : server_update(frame)
    \/ server_close

SpecReplica == Init /\ [][ReplicaNext]_vars

\* ------------------------------------------------------------------------
\* Claims about the replicated model (SpecReplica)
\* ------------------------------------------------------------------------
\* an update_block whose coordinates are absent or outside the grid, or a
\* player_move / player_color naming an id that is not in the peer map
Anomalous(frame) ==
    /\ frame.k = "obj"
    /\ LET m == frame.m
           ty == Get(m, "type", "None")
       IN  \/ /\ ty = "update_block"
              /\ \/ ~Has(m, "x")
                 \/ ~Has(m, "y")
                 \/ ~(0 <= m.y /\ m.y < Len(world) /\ 0 <= m.x /\ m.x < Len(world[1]))
           \/ /\ ty \in {"player_move", "player_color"}
              /\ Get(m, "id", "None") \notin DOMAIN players

\* C11: a semantic anomaly (update_block with out-of-range or missing
\* coordinates, player_move or player_color for an unknown peer) never clears
\* connected and never ends the receive loop, neither when it is read nor
\* while its handler runs.
C11_AnomalyNeverFatal ==
    [][ /\ (RecvStep /\ Anomalous(Head(inbound))) =>
               (connected' = connected /\ pcListen' # "exited")
        /\ (pcListen = "apply" /\ Anomalous(msg)) =>
               (connected' = connected /\ pcListen' # "exited") ]_vars

\* an update_block message carrying both coordinates
UpdateBlockXY(frame) ==
    /\ frame.k = "obj"
    /\ Get(frame.m, "type", "None") = "update_block"
    /\ Has(frame.m, "x") /\ Has(frame.m, "y")

InGrid(m, w) == 0 <= m.y /\ m.y < Len(w) /\ 0 <= m.x /\ m.x < Len(w[1])

\* C12: an update_block with (x, y) outside the current grid (negative, too
\* large, or any coordinates while the grid is empty) leaves the grid as it
\* is; with (x, y) inside it replaces the cell at row y, column x and no other.
C12_UpdateBlock ==
    [][ /\ (RecvStep /\ UpdateBlockXY(Head(inbound))) =>
            /\ UNCHANGED world
            /\ IF InGrid(Head(inbound).m, world)
               THEN pcListen' = "apply" /\ Len(pend') = 1
               ELSE pcListen' = "check" /\ pend' = <<>>
        /\ (pcListen = "apply" /\ pend' # pend /\ UpdateBlockXY(msg)) =>
            /\ InGrid(msg.m, world)
            /\ pcListen' = "check"
            /\ Len(world') = Len(world)
            /\ \A r \in 1..Len(world) :
                  /\ Len(world'[r]) = Len(world[r])
                  /\ \A c \in 1..Len(world[r]) :
                        world'[r][c] = IF r = msg.m.y + 1 /\ c = msg.m.x + 1
                                       THEN msg.m.block
                                       ELSE world[r][c] ]_vars

\* the cell at row 1, column 2 of the welcome's grid was replaced, the rest kept
C12_Witness ==
    /\ UpdateBlockXY(msg) /\ pcListen = "check"
    /\ world = << <<"air", "air", "air">>, <<"stone", "stone", "dirt">> >>

\* C13: once a welcome has set the grid, its number of rows and its number of
\* columns are the same in every later state, whatever messages arrive.
C13_GridDimensionsFixed ==
    [][ world # <<>> =>
          /\ Len(world') = Len(world)
          /\ world' # <<>> /\ Len(world'[1]) = Len(world[1]) ]_vars

\* C14: the peer map never holds the local player's own id, whatever ids the
\* server names in player_join and player_move.
C14_OwnIdNotAPeer == PLAYER_ID \notin DOMAIN players

\* C15: the stored hotbar has exactly 7 slots in every state, whatever the
\* length of the array a welcome or a hotbar_update carries.
C15_HotbarSevenSlots == Len(hotbar) = 7

\* ------------------------------------------------------------------------
\* The chat log under a long run of chat messages (SpecChat)
\* ------------------------------------------------------------------------
MaxChat == 101

\* the server's n-th chat message; its text is its number
ChatFrame(n) == Obj([type |-> "chat", from |-> "p1", level |-> 1, message |-> n])

server_chat ==
    /\ sock # "none"
    /\ ~peerClosed
    /\ nframes < MaxChat
    /\ inbound = <<>>
    /\ inbound' = Append(inbound, ChatFrame(nframes + 1))
    /\ nframes' = nframes + 1
    /\ last' = [op |-> "server_chat"]
    /\ UNCHANGED <<EnvFrame, peerClosed>>

\* conn.chat_messages[-k:]
LastLines(log, k) == SubSeq(log, IF Len(log) > k THEN Len(log) - k + 1 ELSE 1, Len(log))

\* game_screen draws the chat preview from the list as it is at that moment
draw_chat ==
    /\ pcUI = "session"
    /\ connected
    /\ last' = [op |-> "draw_chat", n |-> Len(chat_messages),
                shown |-> LastLines(chat_messages, 5)]
    /\ UNCHANGED <<tvars, gsvars, connvars, modelvars, pcUI, connectResult, pcListen, msg, pend,
                   exitPath, sent, inbound, peerClosed, nframes, now>>

ChatNext ==
    \/ \E ok \in BOOLEAN : connect_socket(ok)
    \/ \E ok \in BOOLEAN : connect_login(ok)
    \/ \E caller \in {"session"} : connect_start(caller)
    \/ listen_server_check
    \/ listen_server_recv
    \/ listen_server_apply
    \/ server_chat
    \/ draw_chat

SpecChat == Init /\ [][ChatNext]_vars

\* C16: a reader never finds more than 100 lines in the chat log; each chat
\* message adds one line at the end and the oldest line is the one removed, so
\* the log is the most recent lines in arrival order.
C16_ChatLogBounded ==
    /\ last.op = "draw_chat" => last.n <= ChatCapacity
    /\ \A i \in 1..Len(chat_messages) - 1 :
           chat_messages[i + 1].text = chat_messages[i].text + 1
    /\ (pcListen = "check" /\ msg.k = "obj") =>
           /\ chat_messages # <<>>
           /\ chat_messages[Len(chat_messages)].text = msg.m.message
           /\ chat_messages[1].text =
                  (IF msg.m.message > ChatCapacity THEN msg.m.message - ChatCapacity + 1 ELSE 1)

\* ---- SpecReplica, continued ----
LeaveMsg(frame) == frame.k = "obj" /\ Get(frame.m, "type", "None") = "player_leave"

\* C17: a player_leave for an id that is not in the peer map leaves the map as
\* it is and the loop running; for an id that is present it removes that peer
\* and no other, and changes no other peer's position.
C17_PlayerLeave ==
    [][ (pcListen = "apply" /\ pend' # pend /\ LeaveMsg(msg)) =>
          LET id == Get(msg.m, "id", "None") IN
          /\ pcListen' # "exited"
          /\ DOMAIN players' = DOMAIN players \ {id}
          /\ \A k \in DOMAIN players' : players'[k] = players[k]
          /\ id \notin DOMAIN players => players' = players
          /\ pcListen' = "check" => id \notin DOMAIN players' ]_vars

\* p1 and p2 had joined; p1 has just been removed from the peer map (its color
\* entry is still to go) and p2 is where it was
C17_Witness ==
    /\ LeaveMsg(msg) /\ pcListen = "apply" /\ Len(pend) = 1
    /\ DOMAIN players = {"p2"} /\ players["p2"] = <<2, 0>>
    /\ DOMAIN player_colors = {"p1", "p2"}

ColorMsg(frame) == frame.k = "obj" /\ Get(frame.m, "type", "None") = "player_color"

\* C18: a player_color for an id that is not a known peer adds no entry to the
\* peer position map nor to the peer color map; for a known peer it changes
\* that peer's color and nothing else.
C18_PlayerColor ==
    [][ (pcListen = "apply" /\ pend' # pend /\ ColorMsg(msg)) =>
          LET id == Get(msg.m, "id", "None") IN
          /\ players' = players
          /\ id \notin DOMAIN players => player_colors' = player_colors
          /\ id \in DOMAIN players =>
                /\ DOMAIN player_colors' = DOMAIN player_colors \cup {id}
                /\ player_colors'[id] = Get(msg.m, "color", "blue")
                /\ \A k \in DOMAIN player_colors \ {id} :
                       player_colors'[k] = player_colors[k] ]_vars

MoveMsg(frame) == frame.k = "obj" /\ Get(frame.m, "type", "None") = "player_move"

\* C19: a player_move sets the position of the peer it names, inserting the
\* peer when the id is unknown, and leaves every other peer's position (and
\* the color map) as it was.
C19_PlayerMove ==
    [][ /\ (RecvStep /\ MoveMsg(Head(inbound))) => (pcListen' = "apply" /\ Len(pend') = 1)
        /\ (pcListen = "apply" /\ pend' # pend /\ MoveMsg(msg)) =>
              LET id == Get(msg.m, "id", "None") IN
              /\ pcListen' = "check"
              /\ DOMAIN players' = DOMAIN players \cup {id}
              /\ players'[id] = <<msg.m.x, msg.m.y>>
              /\ \A k \in DOMAIN players \ {id} : players'[k] = players[k]
              /\ player_colors' = player_colors ]_vars

\* p1, never joined, was inserted by its move beside p2, which kept its place
C19_Witness ==
    /\ MoveMsg(msg) /\ pcListen = "check"
    /\ DOMAIN players = {"p1", "p2"}
    /\ players["p1"] = <<2, 1>> /\ players["p2"] = <<2, 0>>
    /\ DOMAIN player_colors = {"p2"}

\* ------------------------------------------------------------------------
\* Joining a server: the join flow and game_screen's start-up (SpecStart)
\* ------------------------------------------------------------------------
\* max_wait = 5 with wait_time += 0.1 per round: in binary floating point the
\* sum stays below 5 for 51 rounds
WaitIterations == 51

GameFrame == <<tvars, connvars, modelvars, connectResult, pcListen, msg, pend, exitPath,
               sent, inbound, peerClosed, nframes, now>>

\* conn.disconnect_reason or t("connection_failed") (1044): None and the empty
\* string are falsy
Shown(reason) ==
    IF reason = None \/ reason = Some("") THEN "connection_failed" ELSE reason[1]

\* the join flow after connect() returned True and the 0.3 s sleep (1041-1047):
\* show the failure, or enter game_screen
join_check ==
    /\ pcUI = "joined"
    /\ pcUI' = IF connected THEN "wait" ELSE "menu"
    /\ last' = [op |-> "join_check",
                shown |-> IF connected THEN "" ELSE Shown(disconnect_reason)]
    /\ UNCHANGED <<GameFrame, gsvars>>

\* one round of game_screen's wait for the world (1245-1253)
game_wait ==
    /\ pcUI = "wait"
    /\ IF wait_time >= WaitIterations THEN pcUI' = "verify" /\ UNCHANGED wait_time
       ELSE IF world # <<>> THEN pcUI' = "verify" /\ UNCHANGED wait_time
       ELSE IF ~connected THEN pcUI' = "menu" /\ UNCHANGED wait_time
       ELSE wait_time' = wait_time + 1 /\ UNCHANGED pcUI
    /\ last' = [op |-> "game_wait"]
    /\ UNCHANGED <<GameFrame, gs_player_x, gs_player_y, simvars>>

\* if not conn.world or len(conn.world) == 0: return (1255-1257)
game_verify ==
    /\ pcUI = "verify"
    /\ pcUI' = IF world = <<>> THEN "menu" ELSE "start_x"
    /\ last' = [op |-> "game_verify"]
    /\ UNCHANGED <<GameFrame, gsvars>>

\* positions of the local player are counted in 1/1000000 tile
Unit == 1000000

\* float(v) of a whole number of tiles
Float(v) == v * Unit

\* player_x = float(conn.player_x) (1260)
game_start_x ==
    /\ pcUI = "start_x"
    /\ gs_player_x' = Float(player_x)
    /\ pcUI' = "start_y"
    /\ last' = [op |-> "game_start_x"]
    /\ UNCHANGED <<GameFrame, wait_time, gs_player_y, simvars>>

\* player_y = float(conn.player_y) (1261); the game loop follows
game_start_y ==
    /\ pcUI = "start_y"
    /\ gs_player_y' = Float(player_y)
    /\ pcUI' = "session"
    /\ last' = [op |-> "game_start_y"]
    /\ UNCHANGED <<GameFrame, wait_time, gs_player_x, simvars>>

\* the server's welcome: a grid of 2 rows and 3 columns, spawn (1, 0)
StartWelcome ==
    Obj([type |-> "welcome", server |-> "Augu", motd |-> "hello", world |-> W23,
         x |-> 1, y |-> 0, hotbar |-> EmptyHotbar, level |-> 2])

StartNext ==
    \/ \E ok \in BOOLEAN : connect_socket(ok)
    \/ \E ok \in BOOLEAN : connect_login(ok)
    \/ \E caller \in {"joined"} : connect_start(caller)
    \/ join_check
    \/ game_wait
    \/ game_verify
    \/ game_start_x
    \/ game_start_y
    \/ listen_server_check
    \/ listen_server_recv
    \/ listen_server_apply
    \/ \E frame \in {StartWelcome} : server_send(frame)
    \/ server_close

SpecStart == Init /\ [][StartNext]_vars

\* C20: once a welcome has been applied the model holds the welcome's grid
\* (its rows, its columns) and its spawn, and game_screen starts the local
\* player at that spawn, however the receive loop and the start-up wait
\* interleave.
C20_StartAtSpawn ==
    /\ (pcListen = "check" /\ msg = StartWelcome) =>
           /\ Len(world) = Len(msg.m.world)
           /\ Len(world[1]) = Len(msg.m.world[1])
           /\ player_x = msg.m.x /\ player_y = msg.m.y
    /\ pcUI = "session" =>
           /\ gs_player_x = Float(StartWelcome.m.x)
           /\ gs_player_y = Float(StartWelcome.m.y)

\* ------------------------------------------------------------------------
\* The position throttle on its own (SpecThrottle)
\* ------------------------------------------------------------------------
\* game_screen, the only caller of send_position (line 1490), is entered
\* after connect() and the join flow's time.sleep(0.3): 30 time units after
\* the constructor noted last_position_send = time.time() (line 356)
GameStart == 30

MaxDelay == 12

\* clock readings of the game loop, in 1/100 time units
ThrottleTimes == {GameStart + d : d \in 0..MaxDelay}

\* the server takes the oldest packet off the connection
server_read ==
    /\ sent # <<>>
    /\ sent' = Tail(sent)
    /\ last' = [op |-> "server_read"]
    /\ UNCHANGED <<tvars, gsvars, connvars, modelvars, pcUI, connectResult, pcListen, msg,
                   pend, exitPath, now, inbound, peerClosed, nframes>>

ThrottleNext ==
    \/ \E ok \in BOOLEAN : connect_socket(ok)
    \/ \E ok \in BOOLEAN : connect_login(ok)
    \/ \E caller \in {"session"} : connect_start(caller)
    \/ \E x, y \in Coords, t \in ThrottleTimes, ok \in BOOLEAN : send_position(x, y, t, ok)
    \/ server_read

SpecThrottle == Init /\ [][ThrottleNext]_vars

\* C21: a send_position call on a connected session transmits exactly when
\* the interval since the last successful transmission has elapsed, the
\* case of exactly 0.05 included: it is held back only when less than 0.05
\* has passed (a call 0.03 after a transmission is held, calls 0.05 and 0.06
\* after it transmit).
C21_Throttle ==
    [][ (connected /\ last'.op = "send_position") =>
            (last'.res = "held" <=> now' - last_position_send < 5) ]_vars

\* C22: only a successful transmission notes the send time: a held call, a
\* call while disconnected and a call whose write fails leave
\* last_position_send as it was, nothing but a transmitted move changes it,
\* and a transmitted move is more than 0.05 after the one before it.
C22_StampOnSuccess ==
    [][ /\ (last'.op = "send_position" /\ last'.res \in {"held", "off", "failed"}) =>
               last_position_send' = last_position_send
        /\ (last'.op = "send_position" /\ last'.res = "sent") =>
               /\ last_position_send' = now'
               /\ now' - last_position_send > 5
        /\ last_position_send' # last_position_send =>
               (last'.op = "send_position" /\ last'.res = "sent") ]_vars

\* two moves transmitted one after the other, the second just noted
C22_Witness ==
    /\ last = Called("send_position", "sent")
    /\ Len(sent) = 2 /\ sent[1].type = "move" /\ sent[2].type = "move"
    /\ last_position_send > GameStart + 5

\* ------------------------------------------------------------------------
\* The game loop of game_screen (SpecGame)
\* ------------------------------------------------------------------------
MaxTicks == 2

\* int() of a position: truncation toward zero
Trunc(v) == IF v >= 0 THEN v \div Unit ELSE -((-v) \div Unit)

Min(a, b) == IF a < b THEN a ELSE b

Max(a, b) == IF a > b THEN a ELSE b

\* lines 1373-1380, with move_speed = 5: left is tested first
HorizontalVelocity(k) ==
    IF "left" \in k THEN -5000 ELSE IF "right" \in k THEN 5000 ELSE 0

\* gravity without the ceiling of lines 1384-1385
Gravity_NoCeiling(vy, dt) == vy + 25 * dt

\* lines 1383-1385: player_vy += 25 * delta_time, at most 15
Gravity(vy, dt) == IF vy + 25 * dt > 15000 THEN 15000 ELSE vy + 25 * dt

\* lines 1388-1389
Jump(vy, k, og) == IF "jump" \in k /\ og THEN -12000 ELSE vy

\* the bounds test and the tile test of lines 1402-1403 and 1444-1445
NonAir(w, cy, cx) ==
    /\ 0 <= cy /\ cy < Len(w)
    /\ 0 <= cx /\ cx < Len(w[1])
    /\ w[cy + 1][cx + 1] # "air"

\* lines 1396-1422: some tile of the two rows, in the three columns around
\* the new column, that the box would overlap at new_x
BlockedX(new_x, y, gy, w) ==
    \E cy \in {gy, gy + 1}, off \in {-1, 0, 1} :
        LET cx == Trunc(new_x) + off IN
        /\ NonAir(w, cy, cx)
        /\ y + 2 * Unit > cy * Unit + Unit \div 10
        /\ y < (cy + 1) * Unit - Unit \div 10
        /\ new_x + (4 * Unit) \div 10 > cx * Unit
        /\ new_x - (4 * Unit) \div 10 < (cx + 1) * Unit

\* lines 1392-1425
MoveX(x, y, vx, gy, dt, w) ==
    IF vx = 0 THEN x
    ELSE IF BlockedX(x + vx * dt, y, gy, w) THEN x ELSE x + vx * dt

\* a scan that finds no tile
Scan_NoCollision(i, x, st, gx, gy, w) == st

\* lines 1442-1465: the nine tiles around the player, row by row; st holds
\* player_y, player_vy and on_ground as the scan goes
RECURSIVE Scan(_, _, _, _, _, _)
Scan(i, x, st, gx, gy, w) ==
    IF i = 9 THEN st
    ELSE LET cy == gy + (i \div 3)
             cx == gx - 1 + (i % 3)
             hit == /\ NonAir(w, cy, cx)
                    /\ x + (4 * Unit) \div 10 > cx * Unit
                    /\ x - (4 * Unit) \div 10 < (cx + 1) * Unit
                    /\ st.y + 2 * Unit > cy * Unit
                    /\ st.y < (cy + 1) * Unit
             nxt == IF hit /\ st.vy > 0
                    THEN [y |-> cy * Unit - 2 * Unit, vy |-> 0, og |-> TRUE]
                    ELSE IF hit /\ st.vy < 0
                         THEN [y |-> (cy + 1) * Unit, vy |-> 0, og |-> st.og]
                         ELSE st
         IN  Scan(i + 1, x, nxt, gx, gy, w)

\* lines 1476-1487: a step of 0.1 away from every peer closer than 0.8 by 2.0
RECURSIVE PushBack(_, _, _, _)
PushBack(ids, x, y, peers) ==
    IF ids = {} THEN x
    ELSE LET id == CHOOSE q \in ids : TRUE
             ox == Float(peers[id][1])
             oy == Float(peers[id][2])
             near == Abs(x - ox) < (8 * Unit) \div 10 /\ Abs(y - oy) < 2 * Unit
             nx == IF ~near THEN x
                   ELSE IF x < ox THEN x - Unit \div 10 ELSE x + Unit \div 10
         IN  PushBack(ids \ {id}, nx, y, peers)

\* lines 1373-1487 for one frame with the chat closed. gy is player_grid_y
\* as the frame finds it: when it was never assigned and the player moves
\* sideways, line 1399 raises UnboundLocalError (crash)
Physics(x, y, vy0, og, gy, k, dt, w, peers) ==
    LET vx == HorizontalVelocity(k)
        g == Gravity(vy0, dt)
        j == Jump(g, k, og)
        crash == vx # 0 /\ gy = None
        x1 == IF crash THEN x ELSE MoveX(x, y, vx, IF gy = None THEN 0 ELSE gy[1], dt, w)
        y1 == y + j * dt
        x2 == Max(Unit \div 2, Min(x1, Len(w[1]) * Unit - (3 * Unit) \div 2))
        y2 == Max(0, Min(y1, Len(w) * Unit - (5 * Unit) \div 2))
        st == Scan(0, x2, [y |-> y2, vy |-> j, og |-> FALSE], Trunc(x2), Trunc(y2), w)
        y3 == IF st.y < 0 THEN 0 ELSE st.y
    IN  [x |-> PushBack(DOMAIN peers, x2, y3, peers), y |-> y3, vx |-> vx, vy |-> st.vy,
         og |-> st.og, gx |-> Trunc(x2), gy |-> Trunc(y2), crash |-> crash,
         gravity |-> g, jump |-> j, moved |-> y2]

SimFrame == <<tvars, sock, modelvars, connectResult, pcListen, msg, pend, exitPath,
              inbound, peerClosed, nframes, wait_time, selected_slot, peer_iter>>

\* while running and conn.connected: delta_time = clock.tick(FPS) / 1000.0;
\* frame_count += 1 (1282-1284); the cleanup follows the loop
game_loop(dt) ==
    /\ pcUI = "session"
    /\ pcGame = "loop"
    /\ IF running /\ connected
       THEN /\ frame_count < MaxTicks
            /\ delta_time' = dt
            /\ frame_count' = frame_count + 1
            /\ snapped' = FALSE
            /\ pcGame' = "respawn"
       ELSE /\ pcGame' = "cleanup"
            /\ UNCHANGED <<delta_time, frame_count, snapped>>
    /\ last' = [op |-> "game_loop"]
    /\ UNCHANGED <<SimFrame, pcUI, connected, last_position_send, sent, now, gs_player_x,
                   gs_player_y, player_vx, player_vy, on_ground, player_grid_x,
                   player_grid_y, running, chat_open, keys>>

\* if conn.respawn_flag: (1287)
game_respawn_test ==
    /\ pcGame = "respawn"
    /\ pcGame' = IF respawn_flag THEN "respawn_x" ELSE "events"
    /\ last' = [op |-> "game_respawn_test"]
    /\ UNCHANGED <<SimFrame, pcUI, connected, last_position_send, sent, now, gs_player_x,
                   gs_player_y, player_vx, player_vy, on_ground, player_grid_x,
                   player_grid_y, running, chat_open, keys, delta_time, frame_count,
                   snapped>>

\* player_x = float(conn.player_x) (1288)
game_respawn_x ==
    /\ pcGame = "respawn_x"
    /\ gs_player_x' = Float(player_x)
    /\ pcGame' = "respawn_y"
    /\ last' = [op |-> "game_respawn_x"]
    /\ UNCHANGED <<SimFrame, pcUI, connected, last_position_send, sent, now,
                   gs_player_y, player_vx, player_vy, on_ground, player_grid_x,
                   player_grid_y, running, chat_open, keys, delta_time, frame_count,
                   snapped>>

\* player_y = float(conn.player_y) (1289)
game_respawn_y ==
    /\ pcGame = "respawn_y"
    /\ gs_player_y' = Float(player_y)
    /\ pcGame' = "respawn_clear"
    /\ last' = [op |-> "game_respawn_y"]
    /\ UNCHANGED <<SimFrame, pcUI, connected, last_position_send, sent, now,
                   gs_player_x, player_vx, player_vy, on_ground, player_grid_x,
                   player_grid_y, running, chat_open, keys, delta_time, frame_count,
                   snapped>>

\* player_vx = 0; player_vy = 0; conn.respawn_flag = False (1290-1292); the
\* frame goes on with line 1295
game_respawn_clear ==
    /\ pcGame = "respawn_clear"
    /\ player_vx' = 0
    /\ player_vy' = 0
    /\ respawn_flag' = FALSE
    /\ snapped' = TRUE
    /\ pcGame' = "events"
    /\ last' = [op |-> "game_respawn_clear"]
    /\ UNCHANGED <<tvars, sock, connectResult, pcListen, msg, pend, exitPath, inbound,
                   peerClosed, nframes, wait_time, player_level, server_name, motd, world,
                   players, player_colors, player_x, player_y, hotbar, chat_messages,
                   disconnect_reason, pcUI, connected, last_position_send, sent, now,
                   gs_player_x, gs_player_y, on_ground, player_grid_x, player_grid_y,
                   running, chat_open, keys, delta_time, frame_count, selected_slot,
                   peer_iter>>

\* the controls a frame can find held (1295)
KeySets == { {}, {"left"}, {"right"}, {"left", "right"}, {"jump"} }

\* what the event queue holds (1300-1369): nothing, a quit, or the key that
\* opens or closes the chat
Events == {"none", "quit", "chat"}

\* keys = pygame.key.get_pressed() and the event loop (1295-1369)
game_events(k, ev) ==
    /\ pcGame = "events"
    /\ keys' = k
    /\ running' = IF ev = "quit" THEN FALSE ELSE running
    /\ chat_open' = IF ev = "chat" THEN ~chat_open ELSE chat_open
    /\ pcGame' = "physics"
    /\ last' = [op |-> "game_events"]
    /\ UNCHANGED <<SimFrame, pcUI, connected, last_position_send, sent, now, gs_player_x,
                   gs_player_y, player_vx, player_vy, on_ground, player_grid_x,
                   player_grid_y, delta_time, frame_count, snapped>>

\* if not chat_open: movement, collision, pushback (1371-1487). An exception
\* leaves game_screen for the join flow's except branch (1053), past the
\* cleanup
game_physics ==
    /\ pcGame = "physics"
    /\ IF chat_open
       THEN /\ pcGame' = "loop"
            /\ last' = [op |-> "game_physics", ran |-> FALSE, og |-> on_ground,
                        gravity |-> player_vy, jump |-> player_vy, moved |-> gs_player_y]
            /\ UNCHANGED <<pcUI, gs_player_x, gs_player_y, player_vx, player_vy, on_ground,
                           player_grid_x, player_grid_y>>
       ELSE LET r == Physics(gs_player_x, gs_player_y, player_vy, on_ground, player_grid_y,
                             keys, delta_time, world, players)
            IN  /\ player_vx' = r.vx
                /\ last' = [op |-> "game_physics", ran |-> TRUE, og |-> on_ground,
                            gravity |-> r.gravity, jump |-> r.jump,
                            moved |-> IF r.crash THEN gs_player_y ELSE r.moved]
                /\ IF r.crash
                   THEN /\ player_vy' = r.jump
                        /\ pcGame' = "crashed"
                        /\ pcUI' = "menu"
                        /\ UNCHANGED <<gs_player_x, gs_player_y, on_ground, player_grid_x,
                                       player_grid_y>>
                   ELSE /\ gs_player_x' = r.x
                        /\ gs_player_y' = r.y
                        /\ player_vy' = r.vy
                        /\ on_ground' = r.og
                        /\ player_grid_x' = Some(r.gx)
                        /\ player_grid_y' = Some(r.gy)
                        /\ pcGame' = "send"
                        /\ UNCHANGED pcUI
    /\ UNCHANGED <<SimFrame, connected, last_position_send, sent, now, running, chat_open,
                   keys, delta_time, frame_count, snapped>>

\* the clock reading of a frame: the one before it plus the frame's time
FrameTime == Max(now, GameStart) + Max(1, delta_time \div 10)

\* conn.send_position(player_x, player_y) (1490); drawing follows and the
\* loop goes round
game_send(ok) ==
    /\ pcGame = "send"
    /\ send_position_body(gs_player_x, gs_player_y, FrameTime, ok)
    /\ pcGame' = "loop"
    /\ UNCHANGED <<SimFrame, pcUI, gs_player_x, gs_player_y, player_vx, player_vy, on_ground,
                   player_grid_x, player_grid_y, running, chat_open, keys, delta_time,
                   frame_count, snapped>>

\* the cleanup once the loop has ended (1663-1669)
game_leave ==
    /\ pcGame = "cleanup"
    /\ game_cleanup

\* a grid of 4 rows and 4 columns whose last row is stone
G44 == << <<"air", "air", "air", "air">>, <<"air", "air", "air", "air">>,
          <<"air", "air", "air", "air">>, <<"stone", "stone", "stone", "stone">> >>

GameWelcome ==
    Obj([type |-> "welcome", server |-> "Augu", motd |-> "hello", world |-> G44,
         x |-> 1, y |-> 0, hotbar |-> EmptyHotbar, level |-> 2])

Respawn21 == Obj([type |-> "respawn", x |-> 2, y |-> 1])

Respawn10 == Obj([type |-> "respawn", x |-> 1, y |-> 0])

\* the server's stream: the welcome, then respawns to (2, 1) and (1, 0) in turn
GameStream(n) ==
    IF n = 0 THEN GameWelcome ELSE IF n % 2 = 1 THEN Respawn21 ELSE Respawn10

\* a frame's input: some controls held and no event, or an event alone
Inputs == {<<k, "none">> : k \in KeySets} \cup {<<{}, ev>> : ev \in Events}

\* what clock.tick returns: a frame at 60 per second, and a long frame
Dts == {17, 700}

\* rounds of the start-up wait within which the welcome arrives here
MaxWait == 2

\* the game loop with every input, after a welcome and no other message
GameNext ==
    \/ \E ok \in {TRUE} : connect_socket(ok)
    \/ \E ok \in {TRUE} : connect_login(ok)
    \/ \E caller \in {"joined"} : connect_start(caller)
    \/ join_check
    \/ (wait_time < MaxWait /\ game_wait)
    \/ game_verify
    \/ game_start_x
    \/ game_start_y
    \/ \E dt \in Dts : game_loop(dt)
    \/ game_respawn_test
    \/ \E in \in Inputs : game_events(in[1], in[2])
    \/ game_physics
    \/ \E ok \in BOOLEAN : game_send(ok)
    \/ game_leave
    \/ cleanup_flag
    \/ listen_server_check
    \/ listen_server_recv
    \/ listen_server_apply
    \/ (nframes = 0 /\ server_update(GameWelcome))
    \/ (Len(sent) = MaxSent /\ server_read)

SpecGame == Init /\ [][GameNext]_vars

\* the game loop under respawn messages, with short frames and the right
\* key held or not
RespawnNext ==
    \/ \E ok \in {TRUE} : connect_socket(ok)
    \/ \E ok \in {TRUE} : connect_login(ok)
    \/ \E caller \in {"joined"} : connect_start(caller)
    \/ join_check
    \/ (wait_time < MaxWait /\ game_wait)
    \/ game_verify
    \/ game_start_x
    \/ game_start_y
    \/ \E dt \in {17} : game_loop(dt)
    \/ game_respawn_test
    \/ game_respawn_x
    \/ game_respawn_y
    \/ game_respawn_clear
    \/ \E k \in {{}, {"right"}} : game_events(k, "none")
    \/ game_physics
    \/ \E ok \in {TRUE} : game_send(ok)
    \/ listen_server_check
    \/ listen_server_recv
    \/ listen_server_apply
    \/ \E frame \in {GameStream(nframes)} : server_update(frame)
    \/ (Len(sent) = MaxSent /\ server_read)

SpecRespawn == Init /\ [][RespawnNext]_vars

\* ------------------------------------------------------------------------
\* Claims about the game loop (SpecGame)
\* ------------------------------------------------------------------------
\* C23: a frame that took the respawn branch ends where the respawn put the
\* player, with both velocities zero: its movement step (input, gravity,
\* horizontal and vertical integration) changes neither coordinate and
\* leaves both velocities at zero.
C23_RespawnFrame ==
    [][ (pcGame = "physics" /\ snapped /\ pcGame' # "physics") =>
            /\ gs_player_x' = gs_player_x
            /\ gs_player_y' = gs_player_y
            /\ player_vx' = 0
            /\ player_vy' = 0 ]_vars

C25_NoTornRead ==
    pcGame = "respawn_clear" =>
        \E f \in {Respawn21, Respawn10} :
            gs_player_x = Float(f.m.x) /\ gs_player_y = Float(f.m.y)

\* C29: a simulated frame sets horizontal velocity to -5 when only left is
\* held, to +5 when only right is held, and to 0 when neither or both are.
C29_HorizontalVelocity ==
    (last.op = "game_physics" /\ last.ran) =>
        player_vx = (IF keys \cap {"left", "right"} = {"left"} THEN -5000
                     ELSE IF keys \cap {"left", "right"} = {"right"} THEN 5000
                     ELSE 0)

\* C30: vertical velocity is at most 15 after the gravity step of every
\* frame; the jump step changes it only in a frame that starts with
\* on_ground true and the jump key held, and then to -12; with on_ground
\* false the jump key leaves it as gravity set it.
C30_VerticalVelocity ==
    (last.op = "game_physics" /\ last.ran) =>
        /\ last.gravity <= 15000
        /\ last.jump # last.gravity =>
               (last.og /\ "jump" \in keys /\ last.jump = -12000)
        /\ ~last.og => last.jump = last.gravity

\* a jump from the ground
C30_Witness ==
    /\ last.op = "game_physics" /\ last.ran
    /\ last.og /\ "jump" \in keys
    /\ last.jump = -12000
    /\ ~on_ground

\* ------------------------------------------------------------------------
\* Leaving the game screen, the reason shown, and the end of the receive loop
\* ------------------------------------------------------------------------
\* C26: when game_screen returns from its start-up wait (the connection was
\* lost while waiting, or no world came within the wait) the session's
\* connected flag is false, as it is after the cleanup that follows the game
\* loop, and the socket is closed unless the session was already
\* disconnected.
C26_LeaveDisconnects ==
    /\ (pcUI = "menu" /\ last.op \in {"game_wait", "game_verify"}) => ~connected
    /\ pcUI = "closed" => ~connected

\* ------------------------------------------------------------------------
\* The join flow under disconnect messages (SpecJoin)
JoinFrames ==
    { Obj([type |-> "disconnect", reason |-> "kicked"]),
      Obj([type |-> "disconnect", reason |-> ""]),
      Obj([type |-> "disconnect"]),
      Obj([type |-> "respawn", x |-> 2, y |-> 0]),
      [k |-> "bad_json"], [k |-> "trunc"] }

JoinNext ==
    \/ \E ok \in BOOLEAN : connect_socket(ok)
    \/ \E ok \in BOOLEAN : connect_login(ok)
    \/ \E caller \in {"joined"} : connect_start(caller)
    \/ join_check
    \/ listen_server_check
    \/ listen_server_recv
    \/ listen_server_recv_error
    \/ listen_server_apply
    \/ \E frame \in JoinFrames : server_update(frame)
    \/ server_close

SpecJoin == Init /\ [][JoinNext]_vars

\* the reason a disconnect message carries, "Disconnected" when it has none
ReasonOf(frame) == Get(frame.m, "reason", "Disconnected")

\* the flag was cleared by the disconnect branch
ByDisconnect == pcListen = "exited" /\ exitPath = "disconnect"

\* C28 as stated: once a disconnect message has cleared connected,
\* disconnect_reason holds the message's reason and the join flow shows that
\* reason; when the loop ended without a disconnect message,
\* disconnect_reason is unset and the join flow shows the generic fallback.
C28_Original ==
    /\ ByDisconnect => disconnect_reason = Some(ReasonOf(msg))
    /\ (last.op = "join_check" /\ ~connected /\ ByDisconnect) =>
           last.shown = ReasonOf(msg)
    /\ (pcListen = "exited" /\ exitPath # "disconnect") => disconnect_reason = None
    /\ (last.op = "join_check" /\ ~connected /\ ~ByDisconnect) =>
           (pcListen = "exited" /\ last.shown = "connection_failed")

\* C28: once a disconnect message has cleared connected, disconnect_reason
\* holds the message's reason, and the join flow shows that reason when it is
\* not empty and the generic fallback when it is empty; when the loop ended
\* without a disconnect message, disconnect_reason is unset and the join
\* flow shows the generic fallback.
C28_ReasonShown ==
    /\ ByDisconnect => disconnect_reason = Some(ReasonOf(msg))
    /\ (last.op = "join_check" /\ ~connected /\ ByDisconnect) =>
           last.shown = (IF ReasonOf(msg) = "" THEN "connection_failed" ELSE ReasonOf(msg))
    /\ (pcListen = "exited" /\ exitPath # "disconnect") => disconnect_reason = None
    /\ (last.op = "join_check" /\ ~connected /\ ~ByDisconnect) =>
           (pcListen = "exited" /\ last.shown = "connection_failed")

\* the join flow shows the reason of a kick
C28_Witness ==
    /\ last.op = "join_check" /\ ~connected
    /\ ByDisconnect
    /\ last.shown = "kicked"

\* ------------------------------------------------------------------------
\* Teardown and the receive thread (SpecTeardown)
TeardownFrames ==
    { Obj([type |-> "respawn", x |-> 2, y |-> 0]),
      Obj([type |-> "player_join", id |-> "p1", x |-> 1, y |-> 0, color |-> "red"]) }

TeardownNext ==
    \/ \E ok \in {TRUE} : connect_socket(ok)
    \/ \E ok \in {TRUE} : connect_login(ok)
    \/ \E caller \in {"session", "refresh"} : connect_start(caller)
    \/ game_cleanup
    \/ refresh_close
    \/ cleanup_flag
    \/ listen_server_check
    \/ listen_server_recv
    \/ listen_server_recv_error
    \/ listen_server_apply
    \/ \E frame \in TeardownFrames : server_send(frame)
    \/ server_close

\* both threads keep running: a thread that can take its next step takes
\* it. A recv that has nothing to return, and an error that may or may not
\* be raised, are not steps a scheduler can force
TeardownFair ==
    /\ WF_vars(listen_server_check)
    /\ WF_vars(listen_server_recv)
    /\ WF_vars(listen_server_apply)
    /\ WF_vars(cleanup_flag)

SpecTeardown == Init /\ [][TeardownNext]_vars /\ TeardownFair

\* C27: once the owner has closed the socket (game screen teardown or
\* server-list refresh) the receive loop ends on its own, and from the close
\* on it takes no further message off the stream to apply it.
C27_LoopEndsAfterClose ==
    /\ (sock = "closed") ~> (pcListen = "exited")
    /\ [][ sock = "closed" => ~(RecvStep /\ pcListen' = "apply") ]_vars

\* ------------------------------------------------------------------------
\* Claims about the collision passes and the world bounds
\* ------------------------------------------------------------------------
\* C36: in every frame, the first of a game screen included, the horizontal
\* collision check reads the player's grid row only after it was assigned:
\* no frame that moves with left or right held finds player_grid_y
\* unassigned.
C36_GridRowAssigned ==
    [][ (pcGame = "physics" /\ pcGame' # "physics" /\ ~chat_open
            /\ keys \cap {"left", "right"} # {}) =>
            player_grid_y # None ]_vars

\* ------------------------------------------------------------------------
\* The game loop beside a wall and among peers (SpecArena)
\* ------------------------------------------------------------------------
\* G44 with one more stone, in the third row of the first column
G44Wall == << <<"air", "air", "air", "air">>, <<"air", "air", "air", "air">>,
              <<"stone", "air", "air", "air">>, <<"stone", "stone", "stone", "stone">> >>

\* the server's stream: the welcome, then a peer that joins where the player
\* spawned and leaves again
ArenaStream(n) ==
    IF n = 0
    THEN Obj([type |-> "welcome", server |-> "Augu", motd |-> "hello", world |-> G44Wall,
              x |-> 2, y |-> 0, hotbar |-> EmptyHotbar, level |-> 2])
    ELSE IF n = 1
         THEN Obj([type |-> "player_join", id |-> "p1", x |-> 2, y |-> 0, color |-> "red"])
         ELSE Obj([type |-> "player_leave", id |-> "p1"])

DrawFrame == <<tvars, connvars, modelvars, connectResult, pcListen, msg, pend, exitPath,
               sent, inbound, peerClosed, nframes, now, wait_time, gs_player_x, gs_player_y,
               player_vx, player_vy, on_ground, player_grid_x, player_grid_y, running,
               chat_open, frame_count, keys, delta_time, snapped, selected_slot>>

\* for other_pid, (ox, oy) in conn.players.items(): (1524) the iterator is
\* made, once the frame's movement is done
draw_peers_begin ==
    /\ pcUI = "session"
    /\ pcGame = "loop"
    /\ peer_iter.frame < frame_count
    /\ peer_iter' = [frame |-> frame_count, size |-> Cardinality(DOMAIN players),
                     pos |-> 0, done |-> FALSE]
    /\ last' = [op |-> "draw_peers_begin"]
    /\ UNCHANGED <<DrawFrame, pcUI, pcGame>>

\* one round of that loop: the iterator raises RuntimeError when the
\* dictionary's size is not what it was when the iterator was made, stops
\* after the last entry, and else hands out the next entry (1525-1560); the
\* exception leaves game_screen as the one of line 1399 does
draw_peers_next ==
    /\ pcUI = "session"
    /\ pcGame = "loop"
    /\ peer_iter.frame = frame_count
    /\ ~peer_iter.done
    /\ IF Cardinality(DOMAIN players) # peer_iter.size
       THEN /\ pcGame' = "crashed"
            /\ pcUI' = "menu"
            /\ UNCHANGED peer_iter
       ELSE /\ peer_iter' = IF peer_iter.pos = peer_iter.size
                            THEN [peer_iter EXCEPT !.done = TRUE]
                            ELSE [peer_iter EXCEPT !.pos = @ + 1]
            /\ UNCHANGED <<pcUI, pcGame>>
    /\ last' = [op |-> "draw_peers_next"]
    /\ UNCHANGED DrawFrame

\* the frame's drawing is over: the loop goes round
Drawn == frame_count = 0 \/ (peer_iter.frame = frame_count /\ peer_iter.done)

ArenaDts == {100, 200}

ArenaNext ==
    \/ \E ok \in {TRUE} : connect_socket(ok)
    \/ \E ok \in {TRUE} : connect_login(ok)
    \/ \E caller \in {"joined"} : connect_start(caller)
    \/ join_check
    \/ (wait_time < MaxWait /\ game_wait)
    \/ game_verify
    \/ game_start_x
    \/ game_start_y
    \/ \E dt \in ArenaDts : (Drawn /\ game_loop(dt))
    \/ game_respawn_test
    \/ \E k \in {{}, {"left"}, {"right"}} : game_events(k, "none")
    \/ game_physics
    \/ \E ok \in {TRUE} : game_send(ok)
    \/ draw_peers_begin
    \/ draw_peers_next
    \/ listen_server_check
    \/ listen_server_recv
    \/ listen_server_apply
    \/ \E frame \in {ArenaStream(nframes)} : server_update(frame)
    \/ (Len(sent) = MaxSent /\ server_read)

SpecArena == Init /\ [][ArenaNext]_vars

\* the player's box at (x, y) overlaps some tile of w that is not air
TileOverlap(x, y, w) ==
    \E cy \in 0..(Len(w) - 1), cx \in 0..(Len(w[1]) - 1) :
        /\ w[cy + 1][cx + 1] # "air"
        /\ x + (4 * Unit) \div 10 > cx * Unit
        /\ x - (4 * Unit) \div 10 < (cx + 1) * Unit
        /\ y + 2 * Unit > cy * Unit
        /\ y < (cy + 1) * Unit

\* C31: a tentative horizontal move is rejected, x staying as it was for
\* that frame, whenever the player's box at the tentative x would overlap a
\* non-air tile in the rows the player's height spans; a rejected move
\* leaves the horizontal velocity as the keys set it, and an accepted move
\* never puts the box where it overlaps such a tile. (Stated for frames
\* with no peer near, which move x by nothing else.)
C31_HorizontalRejection ==
    [][ (pcGame = "physics" /\ pcGame' = "send" /\ HorizontalVelocity(keys) # 0
            /\ players = EmptyMap) =>
            LET new_x == gs_player_x + HorizontalVelocity(keys) * delta_time IN
            /\ TileOverlap(new_x, gs_player_y, world) =>
                   /\ gs_player_x' = gs_player_x
                   /\ player_vx' = HorizontalVelocity(keys)
            /\ gs_player_x' # gs_player_x => ~TileOverlap(new_x, gs_player_y, world) ]_vars

\* C32: the position a frame hands to send_position lies inside the world
\* bounds, 0.5 <= x <= columns - 1.5 and 0 <= y <= rows - 2.5, peers near the
\* player or not.
C32_SentInBounds ==
    pcGame = "send" =>
        /\ Unit \div 2 <= gs_player_x
        /\ gs_player_x <= Len(world[1]) * Unit - (3 * Unit) \div 2
        /\ 0 <= gs_player_y
        /\ gs_player_y <= Len(world) * Unit - (5 * Unit) \div 2

\* C34: while the game loop is inside its loop over the peer map, the
\* receive loop adds no peer to the map and removes none from it.
C34_NoMutationWhileIterating ==
    [][ (pcGame = "loop" /\ peer_iter.frame = frame_count /\ ~peer_iter.done) =>
            DOMAIN players' = DOMAIN players ]_vars

\* ------------------------------------------------------------------------
\* Claims about respawns, the session flag and the peer maps
\* ------------------------------------------------------------------------
\* C33: no respawn is lost: once the game loop has consumed the flag and no
\* respawn is pending or being applied, the position it snapped to is that
\* of the most recent respawn message, also when a second respawn came
\* while the flag of the first was being consumed.
C33_RespawnNotLost ==
    (pcGame = "events" /\ snapped /\ ~respawn_flag /\ pend = <<>>) =>
        /\ gs_player_x = Float(player_x)
        /\ gs_player_y = Float(player_y)

\* C35: once connected is false, for whatever reason (a send that failed,
\* the teardown on the UI thread), the receive loop takes no further message
\* off the stream into its handlers.
C35_NoMessageAfterFlag ==
    [][ ~connected => ~(RecvStep /\ pcListen' = "apply") ]_vars

\* ------------------------------------------------------------------------
\* Whole frames that hold little (SpecFraming)
\* ------------------------------------------------------------------------
\* whole frames: a chat line, an update of one tile, the empty object {} and
\* a frame whose length prefix is 0
FramingFrames ==
    { Obj([type |-> "chat", from |-> "p1", level |-> 1, message |-> "hi"]),
      Obj([type |-> "player_move", id |-> "p1", x |-> 2, y |-> 1]),
      [k |-> "falsy"], [k |-> "zero_len"] }

FramingNext ==
    \/ \E ok \in {TRUE} : connect_socket(ok)
    \/ \E ok \in {TRUE} : connect_login(ok)
    \/ \E caller \in {"session"} : connect_start(caller)
    \/ \E ok \in BOOLEAN : send_chat("hi", ok)
    \/ listen_server_check
    \/ listen_server_recv
    \/ listen_server_apply
    \/ \E frame \in FramingFrames : server_send(frame)
    \/ server_close

SpecFraming == Init /\ [][FramingNext]_vars

\* C38: every frame received whole whose payload is valid JSON is dispatched
\* and leaves the session as connected as it was and the loop running,
\* unless it is a disconnect; so do a frame that holds the empty object and
\* a frame with a length prefix of zero: neither ends the loop as a closed
\* stream does.
C38_WholeFrameKeepsSession ==
    [][ (RecvStep /\ msg'.k \in {"obj", "falsy", "zero_len"} /\ ~IsDisconnect(msg')) =>
            /\ connected' = connected
            /\ pcListen' # "exited" ]_vars

\* C37: after every inbound message that was processed to its end, the peer
\* position map and the peer color map hold the same ids.
C37_SamePeerIds ==
    (pcListen \in {"check", "recv"} /\ pend = <<>>) =>
        DOMAIN players = DOMAIN player_colors

\* ------------------------------------------------------------------------
\* Hotbar selection and block clicks of game_screen (SpecClick)
\* ------------------------------------------------------------------------
\* everything an event of the loop leaves alone besides the slot, the
\* session and the messages sent
ClickFrame == <<tvars, sock, last_position_send, modelvars, connectResult, pcListen, msg,
                pend, exitPath, inbound, peerClosed, nframes, now, wait_time, gs_player_x,
                gs_player_y, player_vx, player_vy, on_ground, player_grid_x, player_grid_y,
                running, chat_open, frame_count, keys, delta_time, snapped, peer_iter>>

\* KEYDOWN of one of the keys 1-7 with the chat closed:
\* selected_slot = event.key - pygame.K_1 (1334-1335)
game_select(key) ==
    /\ pcUI = "session"
    /\ pcGame = "events"
    /\ selected_slot' = IF ~chat_open /\ 1 <= key /\ key <= 7 THEN key - 1 ELSE selected_slot
    /\ last' = [op |-> "game_select"]
    /\ UNCHANGED <<ClickFrame, pcUI, pcGame, connected, sent>>

\* MOUSEWHEEL with the chat closed:
\* selected_slot = (selected_slot - event.y) % 7 (1336-1338)
game_wheel(y) ==
    /\ pcUI = "session"
    /\ pcGame = "events"
    /\ selected_slot' = IF ~chat_open THEN (selected_slot - y) % 7 ELSE selected_slot
    /\ last' = [op |-> "game_wheel"]
    /\ UNCHANGED <<ClickFrame, pcUI, pcGame, connected, sent>>

\* a reach test that lets every cell through
CanReach_Anywhere(wx, wy, x, y) == TRUE

\* lines 1346-1356: at most one column and two rows from the player's cells
CanReach(wx, wy, x, y) ==
    LET dx == Abs(wx - Trunc(x))
        dy == Min(Abs(wy - Trunc(y)), Abs(wy - (Trunc(y) + 1)))
    IN  dx <= 1 /\ dy <= 2

\* MOUSEBUTTONDOWN over the cell (wx, wy) (1339-1369); a hotbar shorter than
\* the slot chosen makes line 1366 raise IndexError, which leaves game_screen
game_click(button, wx, wy, ok) ==
    /\ pcUI = "session"
    /\ pcGame = "events"
    /\ LET inside == 0 <= wy /\ wy < Len(world) /\ 0 <= wx /\ wx < Len(world[1])
           open == ~chat_open /\ CanReach(wx, wy, gs_player_x, gs_player_y) /\ inside
           own == wx = Trunc(gs_player_x)
                      /\ (wy = Trunc(gs_player_y) \/ wy = Trunc(gs_player_y) + 1)
       IN  IF open /\ button = "break_block"
           THEN break_block(wx, wy, ok)
           ELSE IF open /\ button = "place_block" /\ selected_slot + 1 \notin DOMAIN hotbar
           THEN /\ pcGame' = "crashed"
                /\ pcUI' = "menu"
                /\ last' = [op |-> "game_click"]
                /\ UNCHANGED <<ClickFrame, selected_slot, connected, sent>>
           ELSE IF open /\ button = "place_block" /\ hotbar[selected_slot + 1] # None
                      /\ ~own
           THEN place_block(wx, wy, selected_slot, ok)
           ELSE /\ last' = [op |-> "game_click"]
                /\ UNCHANGED <<ClickFrame, selected_slot, pcUI, pcGame, connected, sent>>

\* a hotbar with stone in its first and its third slot
HotbarStone == [i \in 1..7 |-> IF i \in {1, 3} THEN Some("stone") ELSE None]

\* the server's stream: the welcome, then a hotbar of three empty slots
ClickStream(n) ==
    IF n = 0
    THEN Obj([type |-> "welcome", server |-> "Augu", motd |-> "hello", world |-> G44,
              x |-> 1, y |-> 0, hotbar |-> HotbarStone, level |-> 2])
    ELSE Obj([type |-> "hotbar_update", hotbar |-> Hotbar3])

\* cells under the mouse: the player's own two, one below them, one too far
\* to the right and one above the grid
ClickCells == { <<1, 0>>, <<1, 1>>, <<1, 2>>, <<3, 1>>, <<1, -1>> }

ClickNext ==
    \/ \E ok \in {TRUE} : connect_socket(ok)
    \/ \E ok \in {TRUE} : connect_login(ok)
    \/ \E caller \in {"joined"} : connect_start(caller)
    \/ join_check
    \/ (wait_time < MaxWait /\ game_wait)
    \/ game_verify
    \/ game_start_x
    \/ game_start_y
    \/ \E dt \in {700} : game_loop(dt)
    \/ game_respawn_test
    \/ \E key \in {3} : game_select(key)
    \/ \E y \in {1} : game_wheel(y)
    \/ \E button \in {"break_block", "place_block"}, c \in ClickCells, ok \in {TRUE} :
           (sent = <<>> /\ game_click(button, c[1], c[2], ok))
    \/ \E ev \in {"none", "chat"} : game_events({}, ev)
    \/ game_physics
    \/ \E ok \in {TRUE} : game_send(ok)
    \/ listen_server_check
    \/ listen_server_recv
    \/ listen_server_apply
    \/ \E frame \in {ClickStream(nframes)} : (nframes < 2 /\ server_update(frame))
    \/ server_read

SpecClick == Init /\ [][ClickNext]_vars

====
